---- MODULE Spec2Model ----
(***************************************************************************)
(* Model of the AI database query agent: the query workflow                *)
(* (src/src/agents/workflow.py), the safety validator                      *)
(* (src/src/agents/safety_validator.py), the query generator's response    *)
(* clean-up (src/src/agents/query_generator.py) and the database manager   *)
(* (src/src/database/manager.py).                                          *)
(*                                                                         *)
(* Text is modelled as a sequence of atoms.  An atom is a whitespace       *)
(* character, a piece of punctuation, or a run of word characters (\w+).   *)
(* Two word atoms next to each other form one longer word (there is no     *)
(* word boundary between them), so "UPDATE" followed by "D" is the word    *)
(* UPDATED.                                                                *)
(***************************************************************************)
EXTENDS Integers, Sequences, FiniteSets, TLC

VARIABLES
    \* ---- Settings (src/src/utils/config.py)
    allow_write_operations,
    allow_schema_changes,
    llm_provider,
    \* ---- the chat clients of the agents
    llm,                \* agent -> the class of its self.llm, for the agents built
    llm_calls,          \* the calls made on the clients so far: agent and client class
    \* ---- SafetyValidatorAgent.estimate_query_cost called on its own
    cost,               \* <<>> before the call, <<result>> after it
    \* ---- SafetyValidatorAgent.validate called on its own
    sql_query,          \* the argument of validate
    validation,         \* <<>> before the call, <<result>> after it
    \* ---- QueryGeneratorAgent._clean_sql_response called on its own
    response_text,      \* the raw model output
    cleaned,            \* <<>> before the call, <<result>> after it
    \* ---- QueryOptimizerAgent.optimize called on its own
    optimization,       \* <<>> before the call, <<result>> after it
    \* ---- DatabaseManager
    connections,        \* name -> database_type, for the registered names
    engines,            \* names holding a SQL engine
    mongo_clients,      \* names holding a MongoDB client
    store_rows,         \* connection string -> the rows the SQL store behind it returns
    returned,           \* <<>>, or <<the last call on the manager>>: its name, its
                        \* argument, what the driver did, and what it returned or raised
    \* ---- DatabaseQueryWorkflow.process_query: calls in progress at the same time
    heap,               \* the DatabaseQueryState objects created so far
    calls,              \* call -> where it is, the object it works on, its response
    \* ---- DatabaseQueryWorkflow.process_query: one request
    pc,                 \* the node the run is at
    request,            \* QueryRequest
    llm_output,         \* what the model answers to the generation prompt
    state,              \* DatabaseQueryState
    visited,            \* the nodes entered so far, in order
    failed,             \* the nodes whose except branch ran
    response            \* <<>> until process_query returns, then <<QueryResponse>>

vars == <<allow_write_operations, allow_schema_changes, llm_provider, llm, llm_calls, cost,
          sql_query, validation,
          response_text, cleaned, optimization, connections, engines, mongo_clients,
          store_rows, returned, heap, calls, pc, request, llm_output, state, visited, failed,
          response>>

---------------------------------------------------------------------------
(* Bounds of the model *)

\* longest SQL text (in atoms) enumerated for validate
MaxSqlLen == 3
\* longest raw model output (in atoms) enumerated for _clean_sql_response
MaxRawLen == 3
\* longest statement (in atoms) put between fences
MaxStmtLen == 3
\* longest SQL text (in atoms) enumerated for optimize
MaxOptLen == 3
\* longest SQL text (in atoms) enumerated for estimate_query_cost
MaxCostLen == 3

---------------------------------------------------------------------------
(* Text atoms *)

Whitespace == {" ", "\n"}

\* "<fence>" stands for the three backquotes of a markdown code fence
Punctuation == {";", "<fence>", ":", "=", "'", "--", ".", "*", ",", "(", ")"}

IsSpace(t) == t \in Whitespace

IsWord(t) == t \notin Whitespace /\ t \notin Punctuation

\* str.upper() on one atom
UpperAtom(t) ==
    CASE t = "sql" -> "SQL"
      [] t = "users" -> "USERS"
      [] t = "drop" -> "DROP"
      [] t = "table" -> "TABLE"
      [] t = "select" -> "SELECT"
      [] t = "from" -> "FROM"
      [] t = "where" -> "WHERE"
      [] t = "delete" -> "DELETE"
      [] t = "update" -> "UPDATE"
      [] t = "u" -> "U"
      [] t = "t" -> "T"
      [] t = "idx" -> "IDX"
      [] t = "id" -> "ID"
      [] t = "Query" -> "QUERY"
      [] t = "query" -> "QUERY"
      [] t = "Answer" -> "ANSWER"
      [] t = "Result" -> "RESULT"
      [] t = "Here" -> "HERE"
      [] t = "The" -> "THE"
      [] t = "the" -> "THE"
      [] t = "s" -> "S"
      [] t = "is" -> "IS"
      [] t = "xp_cmdshell" -> "XP_CMDSHELL"
      [] t = "sp_executesql" -> "SP_EXECUTESQL"
      [] OTHER -> t

\* str.upper()
Upper(s) == [i \in 1..Len(s) |-> UpperAtom(s[i])]

\* str.strip(): leading and trailing whitespace removed
Strip(s) ==
    LET idx == {i \in 1..Len(s) : ~IsSpace(s[i])}
    IN  IF idx = {} THEN <<>>
        ELSE LET lo == CHOOSE i \in idx : \A j \in idx : i <= j
                 hi == CHOOSE i \in idx : \A j \in idx : j <= i
             IN  SubSeq(s, lo, hi)

\* str.rstrip(';'): trailing semicolons removed
RStripSemicolon(s) ==
    LET idx == {i \in 1..Len(s) : s[i] # ";"}
    IN  IF idx = {} THEN <<>>
        ELSE SubSeq(s, 1, CHOOSE i \in idx : \A j \in idx : j <= i)

\* all sequences over A of length at most n
SeqsUpTo(A, n) == UNION {[1..k -> A] : k \in 0..n}

---------------------------------------------------------------------------
(* Regular expressions of the safety validator, matched by re.search with  *)
(* re.IGNORECASE                                                           *)

\* the literal word w (compared ignoring case) is at atom i
LitAt(s, i, w) == i \in 1..Len(s) /\ UpperAtom(s[i]) = w

\* \b before atom i, for a word atom i
BoundaryBefore(s, i) == i = 1 \/ ~IsWord(s[i - 1])

\* \b after atom i, for a word atom i
BoundaryAfter(s, i) == i = Len(s) \/ ~IsWord(s[i + 1])

\* \s+ matches exactly the atoms strictly between i and j
SpacesBetween(s, i, j) == j > i + 1 /\ \A k \in (i + 1)..(j - 1) : IsSpace(s[k])

\* .* matches the atoms strictly between i and j ('.' matches no newline)
NoNewlineBetween(s, i, j) == j > i /\ \A k \in (i + 1)..(j - 1) : s[k] # "\n"

\* \bW\b
SearchWord(s, w) ==
    \E i \in 1..Len(s) : LitAt(s, i, w) /\ BoundaryBefore(s, i) /\ BoundaryAfter(s, i)

\* \bW1\s+W2\b
SearchWordPair(s, w1, w2) ==
    \E i \in 1..Len(s), j \in 1..Len(s) :
        /\ LitAt(s, i, w1) /\ BoundaryBefore(s, i)
        /\ SpacesBetween(s, i, j)
        /\ LitAt(s, j, w2) /\ BoundaryAfter(s, j)

\* W1\s+W2, no word boundaries
SearchLitPair(s, w1, w2) ==
    \E i \in 1..Len(s), j \in 1..Len(s) :
        LitAt(s, i, w1) /\ SpacesBetween(s, i, j) /\ LitAt(s, j, w2)

\* (?=\s+\w+\s+WHERE) right after atom j
WordThenWhereAfter(s, j) ==
    \E a \in 1..Len(s), b \in 1..Len(s), c \in 1..Len(s) :
        /\ SpacesBetween(s, j, a)
        /\ a <= b
        /\ \A k \in a..b : IsWord(s[k])
        /\ SpacesBetween(s, b, c)
        /\ LitAt(s, c, "WHERE")

\* \bDELETE\s+FROM\b(?!\s+\w+\s+WHERE)
SearchDeleteWithoutWhere(s) ==
    \E i \in 1..Len(s), j \in 1..Len(s) :
        /\ LitAt(s, i, "DELETE") /\ BoundaryBefore(s, i)
        /\ SpacesBetween(s, i, j)
        /\ LitAt(s, j, "FROM") /\ BoundaryAfter(s, j)
        /\ ~WordThenWhereAfter(s, j)

\* \bUPDATE\b(?!.*WHERE)
SearchUpdateWithoutWhere(s) ==
    \E i \in 1..Len(s) :
        /\ LitAt(s, i, "UPDATE") /\ BoundaryBefore(s, i) /\ BoundaryAfter(s, i)
        /\ ~\E j \in 1..Len(s) : NoNewlineBetween(s, i, j) /\ LitAt(s, j, "WHERE")

\* ';.*--
SearchCommentInjection(s) ==
    \E i \in 1..Len(s), j \in 1..Len(s) :
        /\ s[i] = "'" /\ LitAt(s, i + 1, ";")
        /\ NoNewlineBetween(s, i + 1, j)
        /\ s[j] = "--"

\* 1=1
SearchAlwaysTrue(s) ==
    \E i \in 1..Len(s) : s[i] = "1" /\ LitAt(s, i + 1, "=") /\ LitAt(s, i + 2, "1")

\* OR\s+1=1
SearchOrAlwaysTrue(s) ==
    \E i \in 1..Len(s), j \in 1..Len(s) :
        /\ LitAt(s, i, "OR") /\ SpacesBetween(s, i, j)
        /\ s[j] = "1" /\ LitAt(s, j + 1, "=") /\ LitAt(s, j + 2, "1")

\* re.search(pattern, s, re.IGNORECASE) for the patterns of the validator
re_search(pattern, s) ==
    CASE pattern = "\\bDROP\\s+TABLE\\b" -> SearchWordPair(s, "DROP", "TABLE")
      [] pattern = "\\bDROP\\s+DATABASE\\b" -> SearchWordPair(s, "DROP", "DATABASE")
      [] pattern = "\\bTRUNCATE\\b" -> SearchWord(s, "TRUNCATE")
      [] pattern = "\\bALTER\\s+TABLE\\b" -> SearchWordPair(s, "ALTER", "TABLE")
      [] pattern = "\\bCREATE\\s+TABLE\\b" -> SearchWordPair(s, "CREATE", "TABLE")
      [] pattern = "\\bDELETE\\s+FROM\\b(?!\\s+\\w+\\s+WHERE)" -> SearchDeleteWithoutWhere(s)
      [] pattern = "\\bUPDATE\\b(?!.*WHERE)" -> SearchUpdateWithoutWhere(s)
      [] pattern = "\\bINSERT\\b" -> SearchWord(s, "INSERT")
      [] pattern = "\\bUPDATE\\b" -> SearchWord(s, "UPDATE")
      [] pattern = "\\bDELETE\\b" -> SearchWord(s, "DELETE")
      [] pattern = "\\bMERGE\\b" -> SearchWord(s, "MERGE")
      [] pattern = "\\bREPLACE\\b" -> SearchWord(s, "REPLACE")
      [] pattern = "\\bCREATE\\b" -> SearchWord(s, "CREATE")
      [] pattern = "\\bALTER\\b" -> SearchWord(s, "ALTER")
      [] pattern = "\\bDROP\\b" -> SearchWord(s, "DROP")
      [] pattern = "\\bRENAME\\b" -> SearchWord(s, "RENAME")
      [] pattern = "\\bEXEC\\b" -> SearchWord(s, "EXEC")
      [] pattern = "\\bEVAL\\b" -> SearchWord(s, "EVAL")
      [] pattern = "\\bxp_cmdshell\\b" -> SearchWord(s, "XP_CMDSHELL")
      [] pattern = "\\bsp_executesql\\b" -> SearchWord(s, "SP_EXECUTESQL")
      [] pattern = "';.*--" -> SearchCommentInjection(s)
      [] pattern = "UNION\\s+SELECT" -> SearchLitPair(s, "UNION", "SELECT")
      [] pattern = "1=1" -> SearchAlwaysTrue(s)
      [] pattern = "OR\\s+1=1" -> SearchOrAlwaysTrue(s)
      [] pattern = "DROP\\s+TABLE" -> SearchLitPair(s, "DROP", "TABLE")
      [] OTHER -> FALSE

---------------------------------------------------------------------------
(* SafetyValidatorAgent *)

dangerous_operations ==
    << "\\bDROP\\s+TABLE\\b",
       "\\bDROP\\s+DATABASE\\b",
       "\\bTRUNCATE\\b",
       "\\bALTER\\s+TABLE\\b",
       "\\bCREATE\\s+TABLE\\b",
       "\\bDELETE\\s+FROM\\b(?!\\s+\\w+\\s+WHERE)",
       "\\bUPDATE\\b(?!.*WHERE)" >>

write_operations ==
    << "\\bINSERT\\b", "\\bUPDATE\\b", "\\bDELETE\\b", "\\bMERGE\\b", "\\bREPLACE\\b" >>

schema_operations ==
    << "\\bCREATE\\b", "\\bALTER\\b", "\\bDROP\\b", "\\bRENAME\\b" >>

dangerous_functions ==
    << "\\bEXEC\\b", "\\bEVAL\\b", "\\bxp_cmdshell\\b", "\\bsp_executesql\\b" >>

injection_patterns ==
    << "';.*--", "UNION\\s+SELECT", "1=1", "OR\\s+1=1", "DROP\\s+TABLE" >>

\* the patterns of a list that match s, in the list's order
Matching(patterns, s) == SelectSeq(patterns, LAMBDA p : re_search(p, s))

\* f"{msg}: {pattern}" for every pattern of a list; a text built by an f-string
\* is the sequence of its pieces
Issues(msg, patterns) == [i \in 1..Len(patterns) |-> << msg, ": ", patterns[i] >>]

_check_sql_injection(sql) ==
    Issues("Potential SQL injection pattern", Matching(injection_patterns, sql))

\* a substring test on issue.lower(): the message decides it, no pattern text
\* contains any of the four needles
IssueContains(issue, needle) ==
    \/ needle = "injection" /\ issue[1] = "Potential SQL injection pattern"
    \/ needle = "write operation" /\ issue[1] = "Write operation not allowed"
    \/ needle = "dangerous operation" /\ issue[1] = "Dangerous operation detected"
    \/ needle = "schema modification" /\ issue[1] = "Schema modification not allowed"

AnyIssueContains(issues, needle) ==
    \E i \in 1..Len(issues) : IssueContains(issues[i], needle)

_generate_recommendations(issues) ==
    (IF AnyIssueContains(issues, "injection")
        THEN << "Use parameterized queries to prevent SQL injection" >> ELSE <<>>)
    \o (IF AnyIssueContains(issues, "write operation")
        THEN << "Consider using read-only database connections for analytics" >> ELSE <<>>)
    \o (IF AnyIssueContains(issues, "dangerous operation")
        THEN << "Review and approve destructive operations manually" >> ELSE <<>>)
    \o (IF AnyIssueContains(issues, "schema modification")
        THEN << "Schema changes should go through proper change management" >> ELSE <<>>)

\* RiskLevel with the disallowed-schema check moved before the disallowed-write
\* check
RiskLevel_SchemaBeforeWrite(dangerous, writes, schema, functions, injection) ==
    LET r0 == "low"
        r1 == IF dangerous # <<>> THEN "high" ELSE r0
        r2 == IF schema # <<>> THEN "high" ELSE r1
        r3 == IF writes # <<>> THEN "medium" ELSE r2
        r4 == IF functions # <<>> THEN "high" ELSE r3
    IN  IF injection # <<>> THEN "high" ELSE r4

\* RiskLevel with the disallowed-schema check leaving the level as it is
RiskLevel_SchemaLeavesLevel(dangerous, writes, schema, functions, injection) ==
    LET r0 == "low"
        r1 == IF dangerous # <<>> THEN "high" ELSE r0
        r2 == IF writes # <<>> THEN "medium" ELSE r1
        r4 == IF functions # <<>> THEN "high" ELSE r2
    IN  IF injection # <<>> THEN "high" ELSE r4

\* RiskLevel without the assignment of "medium" for a disallowed write
RiskLevel_NoMedium(dangerous, writes, schema, functions, injection) ==
    IF dangerous # <<>> \/ schema # <<>> \/ functions # <<>> \/ injection # <<>>
    THEN "high" ELSE "low"

\* the risk level after the five checks, each assignment in the order of the code
RiskLevel(dangerous, writes, schema, functions, injection) ==
    LET r0 == "low"
        r1 == IF dangerous # <<>> THEN "high" ELSE r0
        r2 == IF writes # <<>> THEN "medium" ELSE r1
        r3 == IF schema # <<>> THEN "high" ELSE r2
        r4 == IF functions # <<>> THEN "high" ELSE r3
    IN  IF injection # <<>> THEN "high" ELSE r4

\* IsSafe without the test of the risk level
IsSafe_IgnoresRisk(issues, risk_level, allow_write) ==
    Len(issues) = 0 \/ allow_write

\* is_safe = len(issues) == 0 or (risk_level == "low" and allow_write_operations)
IsSafe(issues, risk_level, allow_write) ==
    Len(issues) = 0 \/ (risk_level = "low" /\ allow_write)

\* SafetyValidatorAgent.validate, its normal path
validate(sql, allow_write, allow_schema) ==
    LET normalized_query == Strip(Upper(sql))
        dangerous == Issues("Dangerous operation detected",
                            Matching(dangerous_operations, normalized_query))
        writes    == IF ~allow_write
                     THEN Issues("Write operation not allowed",
                                 Matching(write_operations, normalized_query))
                     ELSE <<>>
        schema    == IF ~allow_schema
                     THEN Issues("Schema modification not allowed",
                                 Matching(schema_operations, normalized_query))
                     ELSE <<>>
        functions == Issues("Dangerous function detected",
                            Matching(dangerous_functions, normalized_query))
        injection == _check_sql_injection(sql)
        issues    == dangerous \o writes \o schema \o functions \o injection
        risk_level == RiskLevel(dangerous, writes, schema, functions, injection)
    IN  [ is_safe |-> IsSafe(issues, risk_level, allow_write),
          issues |-> issues,
          risk_level |-> risk_level,
          recommendations |-> IF issues # <<>> THEN _generate_recommendations(issues)
                                               ELSE <<>> ]

---------------------------------------------------------------------------
(* Inputs of validate *)

SqlAlphabet ==
    {"DROP", "TABLE", "TRUNCATE", "RENAME", "DELETE", "UPDATE", "EXEC",
     "users", " ", "\n", "1", "="}

SampleQueries ==
    { << "SELECT", " ", "*", " ", "FROM", " ", "users" >>,
      << "SELECT", " ", "1" >>,
      << "DROP", " ", "TABLE", " ", "users" >>,
      << "drop", " ", "table", " ", "users" >>,
      << "DROP", " ", "INDEX", " ", "idx" >>,
      << "CREATE", " ", "TABLE", " ", "t", " ", "(", "id", ")" >>,
      << "CREATE", " ", "INDEX", " ", "idx", " ", "ON", " ", "users", " ", "(", "id", ")" >>,
      << "ALTER", " ", "TABLE", " ", "users", " ", "RENAME", " ", "TO", " ", "t" >>,
      << "TRUNCATE", " ", "TABLE", " ", "users", ";", " ",
         "INSERT", " ", "INTO", " ", "users", " ", "VALUES", " ", "(", "1", ")" >>,
      << "INSERT", " ", "INTO", " ", "users", " ", "VALUES", " ", "(", "1", ")" >>,
      << "DELETE", " ", "FROM", " ", "users" >>,
      << "DELETE", " ", "FROM", " ", "users", " ", "WHERE", " ", "id", "=", "1" >>,
      << "DELETE", " ", "FROM", " ", "users", " ", "u", " ", "WHERE", " ", "id", "=", "1" >>,
      << "UPDATE", " ", "users", " ", "SET", " ", "id", "=", "1", " ", "WHERE", " ", "id", "=", "1" >>,
      << "UPDATE", " ", "users", " ", "SET", " ", "id", "=", "1", "\n", "WHERE", " ", "id", "=", "1" >>,
      << "SELECT", " ", "UPDATE", "D_AT", " ", "FROM", " ", "users" >>,
      << "SELECT", " ", "*", " ", "FROM", " ", "users", " ", "WHERE", " ", "id", "=", "1",
         " ", "OR", " ", "1", "=", "1" >>,
      << "SELECT", " ", "1", " ", "UNION", " ", "SELECT", " ", "1" >>,
      << "SELECT", " ", "'", "'", ";", " ", "--" >>,
      << "EXEC", " ", "xp_cmdshell" >> }

SqlInputs == SeqsUpTo(SqlAlphabet, MaxSqlLen) \cup SampleQueries

---------------------------------------------------------------------------
(* The parts of the state an operation under study does not use *)

NoRequest == [query |-> <<>>, connection_name |-> "", context |-> [k \in {} |-> <<>>]]

\* DatabaseQueryState.__init__
DatabaseQueryState ==
    [ schema_info |-> [k \in {} |-> <<>>],
      generated_sql |-> <<>>,
      safety_validated |-> FALSE,
      optimized_sql |-> <<>>,
      query_results |-> <<>>,
      explanation |-> <<>>,
      errors |-> <<>>,
      metadata |-> {} ]

\* DatabaseManager.__init__
ManagerInit ==
    /\ connections = [n \in {} |-> <<>>]
    /\ engines = {}
    /\ mongo_clients = {}

WorkflowIdle ==
    /\ pc = "idle"
    /\ request = NoRequest
    /\ llm_output = <<>>
    /\ state = DatabaseQueryState
    /\ visited = <<>>
    /\ failed = {}
    /\ response = <<>>

ValidatorIdle == sql_query = <<>> /\ validation = <<>>

CleanerIdle == response_text = <<>> /\ cleaned = <<>>

OptimizerIdle == optimization = <<>>

NoCall == returned = <<>>

NoConcurrentCalls == heap = <<>> /\ calls = <<>>

NoCostCall == cost = <<>>

\* Settings.llm_provider has the default "ollama"; no agent is built
ProvidersIdle ==
    /\ llm_provider = "ollama"
    /\ llm = [agent \in {} |-> ""]
    /\ llm_calls = <<>>

managerVars == <<connections, engines, mongo_clients, store_rows>>
workflowVars == <<pc, request, llm_output, state, visited, failed, response>>
validatorVars == <<sql_query, validation>>
cleanerVars == <<response_text, cleaned>>
optimizerVars == <<optimization>>
callVars == <<returned>>
concurrentVars == <<heap, calls>>
costVars == <<cost>>
providerVars == <<llm_provider, llm, llm_calls>>
settingsVars == <<allow_write_operations, allow_schema_changes>>

---------------------------------------------------------------------------
(* validate on its own: every input, every setting of the two flags *)

InitValidate ==
    /\ allow_write_operations \in BOOLEAN
    /\ allow_schema_changes \in BOOLEAN
    /\ sql_query \in SqlInputs
    /\ validation = <<>>
    /\ CleanerIdle
    /\ OptimizerIdle
    /\ ManagerInit
    /\ store_rows = [cs \in {} |-> <<>>]
    /\ NoCall
    /\ NoConcurrentCalls
    /\ NoCostCall
    /\ ProvidersIdle
    /\ WorkflowIdle

Validate ==
    /\ validation = <<>>
    /\ validation' = << validate(sql_query, allow_write_operations, allow_schema_changes) >>
    /\ UNCHANGED <<sql_query, settingsVars, cleanerVars, optimizerVars, concurrentVars, costVars, providerVars, managerVars, callVars, workflowVars>>

NextValidate == Validate

SpecValidate == InitValidate /\ [][NextValidate]_vars

---------------------------------------------------------------------------
(* Claims about validate *)

\* the text holds the word w (any case), with no word character on either side
HasWord(text, w) ==
    \E i \in 1..Len(text) :
        /\ UpperAtom(text[i]) = w
        /\ (i = 1 \/ ~IsWord(text[i - 1]))
        /\ (i = Len(text) \/ ~IsWord(text[i + 1]))

\* the text holds w1, whitespace, w2 (any case)
HasPhrase(text, w1, w2) ==
    \E i \in 1..Len(text), j \in 1..Len(text) :
        /\ i + 1 < j
        /\ UpperAtom(text[i]) = w1
        /\ UpperAtom(text[j]) = w2
        /\ \A k \in (i + 1)..(j - 1) : text[k] \in Whitespace

HasSchemaDDL(text) ==
    HasWord(text, "CREATE") \/ HasWord(text, "ALTER") \/ HasWord(text, "DROP")
        \/ HasWord(text, "RENAME")

HasWriteVerb(text) ==
    HasWord(text, "INSERT") \/ HasWord(text, "UPDATE") \/ HasWord(text, "DELETE")

Validated == validation # <<>>

Verdict == validation[1]

HighRiskMessages ==
    {"Dangerous operation detected", "Dangerous function detected",
     "Potential SQL injection pattern"}

HasIssueFrom(issues, messages) == \E i \in 1..Len(issues) : issues[i][1] \in messages

C4_WritesFlagged ==
    (Validated /\ ~allow_write_operations /\ HasWriteVerb(sql_query))
        => /\ Verdict.issues # <<>>
           /\ ~Verdict.is_safe
           /\ Verdict.risk_level \in {"medium", "high"}

C4_Witness ==
    /\ Validated /\ ~allow_write_operations /\ allow_schema_changes
    /\ HasWord(sql_query, "DELETE") /\ HasWord(sql_query, "WHERE")
    /\ ~Verdict.is_safe /\ Verdict.risk_level = "medium"

\* C5 as stated: risk_level is "high" whenever a destructive-operation,
\* dangerous-function or injection pattern matched, whatever else matched and
\* whatever the flags are; it is "medium" only when disallowed-write patterns
\* are the only matches.
C5_HighOnAnyDangerousMatch ==
    Validated =>
        /\ HasIssueFrom(Verdict.issues, HighRiskMessages) => Verdict.risk_level = "high"
        /\ Verdict.risk_level = "medium"
            => \A i \in 1..Len(Verdict.issues) :
                  Verdict.issues[i][1] = "Write operation not allowed"

\* C6 as stated: some SQL text and some setting of the two flags give
\* risk_level "high" together with is_safe=True.
C6_Original ==
    \E s \in SqlInputs \cup {sql_query}, w \in BOOLEAN, c \in BOOLEAN :
        LET r == validate(s, w, c) IN r.risk_level = "high" /\ r.is_safe

\* C6 amended: no SQL text and no setting of the two flags give risk_level
\* "high" together with is_safe=True: a "high" verdict is always unsafe.
C6_HighRiskNeverSafe ==
    Validated => (Verdict.risk_level = "high" => ~Verdict.is_safe)

C6_Witness ==
    /\ Validated /\ allow_write_operations /\ allow_schema_changes
    /\ Verdict.risk_level = "high" /\ ~Verdict.is_safe
    /\ HasWord(sql_query, "EXEC")

\* the text is a DELETE FROM statement or an UPDATE statement
IsDeleteOrUpdate(text) ==
    /\ text # <<>>
    /\ \/ UpperAtom(text[1]) = "UPDATE"
       \/ /\ Len(text) >= 3
          /\ UpperAtom(text[1]) = "DELETE"
          /\ text[2] \in Whitespace
          /\ UpperAtom(text[3]) = "FROM"

\* the issues reported for the DELETE FROM and UPDATE rules of
\* dangerous_operations
FlaggedDeleteOrUpdate(issues) ==
    \E i \in 1..Len(issues) :
        /\ issues[i][1] = "Dangerous operation detected"
        /\ issues[i][3] \in {dangerous_operations[6], dangerous_operations[7]}

\* C20 as stated: with allow_write_operations and allow_schema_changes both
\* True, validate reports a "Dangerous operation" issue for a DELETE FROM or
\* UPDATE statement exactly when the statement has no WHERE clause: with a
\* WHERE clause (after a table alias or on a later line too) it passes,
\* without one it is flagged.
C20_FlaggedExactlyWithoutWhere ==
    (Validated /\ allow_write_operations /\ allow_schema_changes
        /\ IsDeleteOrUpdate(sql_query))
        => (FlaggedDeleteOrUpdate(Verdict.issues) <=> ~HasWord(sql_query, "WHERE"))

\* C24: for every SQL text and every setting of the two flags, validate
\* returns is_safe=True exactly when its issue list is empty and risk_level
\* "low" exactly when its issue list is empty; issues with a low risk level
\* and writes allowed never occur, so that clause never makes a query safe.
C24_SafeIffNoIssues ==
    Validated =>
        /\ Verdict.is_safe <=> Verdict.issues = <<>>
        /\ Verdict.risk_level = "low" <=> Verdict.issues = <<>>
        /\ ~(Verdict.issues # <<>> /\ Verdict.risk_level = "low" /\ allow_write_operations)

C24_Witness ==
    /\ Validated /\ allow_write_operations /\ ~allow_schema_changes
    /\ HasWord(sql_query, "RENAME")
    /\ Len(Verdict.issues) = 1
    /\ Verdict.risk_level = "high" /\ ~Verdict.is_safe

\* C25 as stated: whenever validate returns a non-empty issue list on its
\* normal path it returns a non-empty recommendations list.
C25_IssuesHaveRecommendations ==
    (Validated /\ Verdict.issues # <<>>) => Verdict.recommendations # <<>>

\* low < medium < high
RiskRank(level) == CASE level = "low" -> 0 [] level = "medium" -> 1 [] level = "high" -> 2

\* C29 as stated: for a fixed SQL text, changing allow_write_operations or
\* allow_schema_changes from False to True never turns is_safe from True to
\* False and never raises risk_level.
C29_AllowingNeverTightens ==
    Validated =>
        \A allow_write \in BOOLEAN, allow_schema \in BOOLEAN :
            ((allow_write_operations => allow_write) /\ (allow_schema_changes => allow_schema))
                => LET relaxed == validate(sql_query, allow_write, allow_schema)
                   IN  /\ Verdict.is_safe => relaxed.is_safe
                       /\ RiskRank(relaxed.risk_level) <= RiskRank(Verdict.risk_level)

---------------------------------------------------------------------------
(* QueryGeneratorAgent._clean_sql_response *)

\* str.startswith, case kept
StartsWith(s, prefix) ==
    Len(s) >= Len(prefix) /\ SubSeq(s, 1, Len(prefix)) = prefix

\* s.lower().startswith(prefix.lower())
StartsWithIgnoreCase(s, prefix) ==
    Len(s) >= Len(prefix) /\ Upper(SubSeq(s, 1, Len(prefix))) = Upper(prefix)

\* str.endswith
EndsWith(s, suffix) ==
    Len(s) >= Len(suffix) /\ SubSeq(s, Len(s) - Len(suffix) + 1, Len(s)) = suffix

\* s[n:]
DropFirst(s, n) == SubSeq(s, n + 1, Len(s))

\* s[:-n]
DropLast(s, n) == SubSeq(s, 1, Len(s) - n)

prefixes_to_remove ==
    << << "Query", ":" >>,
       << "SQL", ":" >>,
       << "Answer", ":" >>,
       << "Result", ":" >>,
       << "Here", "'", "s", " ", "the", " ", "SQL", " ", "query", ":" >>,
       << "The", " ", "SQL", " ", "query", " ", "is", ":" >> >>

\* the loop over prefixes_to_remove, from the k-th prefix on
RECURSIVE RemovePrefixes(_, _)
RemovePrefixes(s, k) ==
    IF k > Len(prefixes_to_remove) THEN s
    ELSE IF StartsWithIgnoreCase(s, prefixes_to_remove[k])
         THEN RemovePrefixes(Strip(DropFirst(s, Len(prefixes_to_remove[k]))), k + 1)
         ELSE RemovePrefixes(s, k + 1)

\* the opening fence removed: "<fence>", "sql" are the six characters of the
\* first branch, "<fence>" the three of the second
RemoveOpeningFence(s) ==
    IF StartsWith(s, << "<fence>", "sql" >>) THEN DropFirst(s, 2)
    ELSE IF StartsWith(s, << "<fence>" >>) THEN DropFirst(s, 1)
    ELSE s

RemoveClosingFence(s) ==
    IF EndsWith(s, << "<fence>" >>) THEN DropLast(s, 1) ELSE s

\* sql_query.rstrip(';').strip()
RemoveTrailingSemicolons(s) == Strip(RStripSemicolon(s))

_clean_sql_response(raw) ==
    RemoveTrailingSemicolons(
        RemovePrefixes(RemoveClosingFence(RemoveOpeningFence(Strip(raw))), 1))

---------------------------------------------------------------------------
(* _clean_sql_response on its own: every raw model output *)

RawAlphabet ==
    {"<fence>", "sql", "\n", " ", ";", ":", "SELECT", "1", "SQL", "Query"}

StatementAlphabet == {"SELECT", " ", "1", "users"}

\* statements: no whitespace at either end
Statements ==
    {s \in SeqsUpTo(StatementAlphabet, MaxStmtLen) :
        Len(s) > 0 /\ ~IsSpace(s[1]) /\ ~IsSpace(s[Len(s)])}

\* an opening sql fence, a newline, the statement, ';', a newline, a closing fence
Fenced(stmt) == << "<fence>", "sql", "\n" >> \o stmt \o << ";", "\n", "<fence>" >>

SampleResponses ==
    { << "SELECT", " ", "*", " ", "FROM", " ", "users", ";" >>,
      << "Here", "'", "s", " ", "the", " ", "SQL", " ", "query", ":", " ", "SELECT", " ", "1" >>,
      << "The", " ", "SQL", " ", "query", " ", "is", ":", "\n", "SELECT", " ", "1", ";" >>,
      << "Answer", ":", " ", "SELECT", " ", "1" >>,
      << "Result", ":", " ", "SELECT", " ", "1" >> }

RawOutputs ==
    SeqsUpTo(RawAlphabet, MaxRawLen) \cup {Fenced(s) : s \in Statements}
        \cup SampleResponses

InitClean ==
    /\ allow_write_operations = FALSE
    /\ allow_schema_changes = FALSE
    /\ ValidatorIdle
    /\ response_text \in RawOutputs
    /\ cleaned = <<>>
    /\ OptimizerIdle
    /\ ManagerInit
    /\ store_rows = [cs \in {} |-> <<>>]
    /\ NoCall
    /\ NoConcurrentCalls
    /\ NoCostCall
    /\ ProvidersIdle
    /\ WorkflowIdle

Clean ==
    /\ cleaned = <<>>
    /\ cleaned' = << _clean_sql_response(response_text) >>
    /\ UNCHANGED <<response_text, settingsVars, validatorVars, optimizerVars, concurrentVars, costVars, providerVars, managerVars, callVars, workflowVars>>

NextClean == Clean

SpecClean == InitClean /\ [][NextClean]_vars

---------------------------------------------------------------------------
(* Claims about _clean_sql_response *)

\* C10: for raw output made of an opening sql fence, a newline, a statement
\* ended by ';', a newline and a closing fence, _clean_sql_response returns
\* the statement alone, without the fences and without the semicolon.
C10_FencedStatementCleaned ==
    \A stmt \in Statements :
        (cleaned # <<>> /\ response_text = Fenced(stmt)) => cleaned[1] = stmt

\* C21 as stated: for every raw model output, the text returned by
\* _clean_sql_response does not start with a markdown fence or with one of
\* the known prefixes, and does not end with a semicolon or a markdown fence.
C21_CleanedIsBare ==
    cleaned # <<>> =>
        /\ ~StartsWith(cleaned[1], << "<fence>" >>)
        /\ \A k \in 1..Len(prefixes_to_remove) :
              ~StartsWithIgnoreCase(cleaned[1], prefixes_to_remove[k])
        /\ ~EndsWith(cleaned[1], << ";" >>)
        /\ ~EndsWith(cleaned[1], << "<fence>" >>)

---------------------------------------------------------------------------
(* DatabaseManager *)

ConnectionNames == {"default", "analytics"}

ConnectionStrings == {"sqlite:///example.db", "mongodb://localhost:27017/"}

\* DatabaseManager._get_database_type: the scheme prefix of the connection string
_get_database_type(connection_string) ==
    CASE connection_string = "postgresql://localhost/test" -> "postgresql"
      [] connection_string = "mysql://localhost/test" -> "mysql"
      [] connection_string = "sqlite:///example.db" -> "sqlite"
      [] connection_string = "mongodb://localhost:27017/" -> "mongodb"
      [] OTHER -> "unknown"

SqlConnectionStrings ==
    {cs \in ConnectionStrings : _get_database_type(cs) # "mongodb"}

\* what a store can hold: no row, or one row
StoreContents == { <<>>, << [id |-> 1] >> }

\* d[k] = v
PutKey(d, k, v) == [x \in DOMAIN d \cup {k} |-> IF x = k THEN v ELSE d[x]]

\* del d[k]
DelKey(d, k) == [x \in DOMAIN d \ {k} |-> d[x]]

\* the DatabaseConnection model: is_active is False unless it is given
\* (is_active is <<>> when the argument is left out, <<b>> when it is b)
NewDatabaseConnection(name, connection_string, db_type, is_active) ==
    [ name |-> name,
      connection_string |-> connection_string,
      database_type |-> db_type,
      is_active |-> IF is_active = <<>> THEN FALSE ELSE is_active[1] ]

\* add_connection building the record without is_active
DatabaseConnection_ActivityLeftOut(name, connection_string, db_type) ==
    NewDatabaseConnection(name, connection_string, db_type, <<>>)

\* DatabaseConnection(name, connection_string, database_type, is_active=True)
DatabaseConnection(name, connection_string, db_type) ==
    NewDatabaseConnection(name, connection_string, db_type, << TRUE >>)

\* add_connection storing the handle before the liveness probe
add_connection_HandleBeforeProbe(name, connection_string, outcome) ==
    LET db_type == _get_database_type(connection_string)
    IN  \/ /\ outcome = "connected"
           /\ IF db_type = "mongodb"
              THEN mongo_clients' = mongo_clients \cup {name} /\ engines' = engines
              ELSE engines' = engines \cup {name} /\ mongo_clients' = mongo_clients
           /\ connections' = PutKey(connections, name,
                                    DatabaseConnection(name, connection_string, db_type))
        \/ /\ outcome = "open fails"
           /\ UNCHANGED <<connections, engines, mongo_clients>>
        \/ /\ outcome = "probe fails"
           /\ IF db_type = "mongodb"
              THEN mongo_clients' = mongo_clients \cup {name} /\ engines' = engines
              ELSE engines' = engines \cup {name} /\ mongo_clients' = mongo_clients
           /\ UNCHANGED connections

\* DatabaseManager.add_connection; outcome is what the driver does
add_connection(name, connection_string, outcome) ==
    LET db_type == _get_database_type(connection_string)
    IN  \/ /\ outcome = "connected"
           /\ IF db_type = "mongodb"
              THEN mongo_clients' = mongo_clients \cup {name} /\ engines' = engines
              ELSE engines' = engines \cup {name} /\ mongo_clients' = mongo_clients
           /\ connections' = PutKey(connections, name,
                                    DatabaseConnection(name, connection_string, db_type))
        \/ /\ outcome \in {"open fails", "probe fails"}
           /\ UNCHANGED <<connections, engines, mongo_clients>>

\* the value add_connection returns
add_connection_value(outcome) == outcome = "connected"

\* an Optional value: <<>> is None, <<v>> is v
None == <<>>

\* the three tables of the manager
Manager ==
    [connections |-> connections, engines |-> engines, mongo_clients |-> mongo_clients]

\* what the driver can do during remove_connection(name) on the tables m
RemoveOutcomes(m, name) ==
    {"removed"}
        \cup (IF name \in m.engines THEN {"dispose fails"} ELSE {})
        \cup (IF name \in m.mongo_clients THEN {"close fails"} ELSE {})

\* remove_connection closing the handles and keeping the connection record
AfterRemove_KeepsRecord(m, name, outcome) ==
    CASE outcome = "removed" ->
            [ connections |-> m.connections,
              engines |-> m.engines \ {name},
              mongo_clients |-> m.mongo_clients \ {name} ]
      [] outcome = "dispose fails" -> m
      [] outcome = "close fails" -> [m EXCEPT !.engines = @ \ {name}]

\* the tables after remove_connection(name) on the tables m
AfterRemove(m, name, outcome) ==
    CASE outcome = "removed" ->
            [ connections |-> DelKey(m.connections, name),
              engines |-> m.engines \ {name},
              mongo_clients |-> m.mongo_clients \ {name} ]
      [] outcome = "dispose fails" -> m
      [] outcome = "close fails" -> [m EXCEPT !.engines = @ \ {name}]

\* DatabaseManager.remove_connection; outcome is what the driver does
remove_connection(name, outcome) ==
    /\ outcome \in RemoveOutcomes(Manager, name)
    /\ connections' = AfterRemove(Manager, name, outcome).connections
    /\ engines' = AfterRemove(Manager, name, outcome).engines
    /\ mongo_clients' = AfterRemove(Manager, name, outcome).mongo_clients

\* the value remove_connection returns
remove_connection_value(outcome) == outcome = "removed"

\* the tables after `for name in names: remove_connection(name)`, the driver
\* doing outcomes[name] for each name
RECURSIVE AfterRemoveEach(_, _, _)
AfterRemoveEach(m, names, outcomes) ==
    IF names = {} THEN m
    ELSE LET name == CHOOSE n \in names : TRUE
         IN  AfterRemoveEach(AfterRemove(m, name, outcomes[name]),
                             names \ {name}, outcomes)

\* DatabaseManager.close_all_connections
close_all_connections(outcomes) ==
    /\ \A name \in DOMAIN connections : outcomes[name] \in RemoveOutcomes(Manager, name)
    /\ connections' = AfterRemoveEach(Manager, DOMAIN connections, outcomes).connections
    /\ engines' = AfterRemoveEach(Manager, DOMAIN connections, outcomes).engines
    /\ mongo_clients' = AfterRemoveEach(Manager, DOMAIN connections, outcomes).mongo_clients

\* DatabaseManager.list_connections (the two timestamps are left out)
list_connections ==
    [ name \in DOMAIN connections |->
        [ database_type |-> connections[name].database_type,
          is_active |-> connections[name].is_active ] ]

\* a call that raised
Raised(error) == [raised |-> error]

\* a call that returned
Returned(value) == [value |-> value]

\* what DatabaseManager.get_schema_info(name) can do
get_schema_info(name) ==
    IF name \notin DOMAIN connections
    THEN { Raised("ValueError: Connection not found") }
    ELSE IF connections[name].database_type = "mongodb"
    THEN IF name \in mongo_clients
         THEN { Returned("MongoDB schema") }
         ELSE { Raised("KeyError") }
    ELSE IF name \in engines
         THEN { Returned("SQL schema"), Raised("driver error") }
         ELSE { Raised("KeyError") }

\* DatabaseManager.execute_query on a registered SQL connection: the rows of
\* the store, one mapping per row
execute_query(name) == store_rows[connections[name].connection_string]

\* execute_query without the check of the recorded type
execute_query_call_NoTypeCheck(name) ==
    IF name \notin DOMAIN connections
    THEN { Raised("ValueError: Connection not found") }
    ELSE IF name \in engines
         THEN { Returned(execute_query(name)), Raised("driver error") }
         ELSE { Raised("KeyError") }

\* what DatabaseManager.execute_query(name, query) can do
execute_query_call(name) ==
    IF name \notin DOMAIN connections
    THEN { Raised("ValueError: Connection not found") }
    ELSE IF connections[name].database_type = "mongodb"
    THEN { Raised("NotImplementedError") }
    ELSE IF name \in engines
         THEN { Returned(execute_query(name)), Raised("driver error") }
         ELSE { Raised("KeyError") }

---------------------------------------------------------------------------
(* DatabaseQueryWorkflow *)

Nodes ==
    {"analyze_schema", "generate_query", "validate_safety", "optimize_query",
     "execute_query", "explain_results"}

\* what the model answers to the generation prompt
LlmResponses ==
    { <<>>,
      Fenced(<< "SELECT", " ", "1" >>),
      << "SELECT", " ", "*", " ", "FROM", " ", "users", ";" >>,
      << "DROP", " ", "TABLE", " ", "users" >>,
      << "DELETE", " ", "FROM", " ", "users", " ", "WHERE", " ", "id", "=", "1" >> }

Questions == { << "Show me all users" >> }

\* str(e) of a caught exception
ExceptionText == << "<exception>" >>

\* f"{what}: {e}"
ErrorText(what) == << what, ": " >> \o ExceptionText

\* "; ".join(texts)
RECURSIVE Join(_, _)
Join(texts, sep) ==
    IF Len(texts) = 0 THEN <<>>
    ELSE IF Len(texts) = 1 THEN texts[1]
    ELSE texts[1] \o << sep >> \o Join(Tail(texts), sep)

\* a graph in which optimize_query is followed by explain_results
Edge_SkipsExecution(node) ==
    CASE node = "START" -> "analyze_schema"
      [] node = "analyze_schema" -> "generate_query"
      [] node = "generate_query" -> "validate_safety"
      [] node = "optimize_query" -> "explain_results"
      [] node = "execute_query" -> "explain_results"
      [] node = "explain_results" -> "end"

\* the unconditional edges of _build_workflow
Edge(node) ==
    CASE node = "START" -> "analyze_schema"
      [] node = "analyze_schema" -> "generate_query"
      [] node = "generate_query" -> "validate_safety"
      [] node = "optimize_query" -> "execute_query"
      [] node = "execute_query" -> "explain_results"
      [] node = "explain_results" -> "end"

\* _should_proceed_after_validation answering "optimize" whatever the verdict
_should_proceed_always(st) == "optimize"

_should_proceed_after_validation(st) ==
    IF st.safety_validated THEN "optimize" ELSE "reject"

\* the mapping of add_conditional_edges
ConditionalEdge(route) ==
    CASE route = "optimize" -> "optimize_query"
      [] route = "reject" -> "end"

\* a graph in which a node that caught an exception ends the run
Successor_StopOnFailure(node, st, node_failed) ==
    IF node_failed THEN "end"
    ELSE IF node = "validate_safety"
         THEN ConditionalEdge(_should_proceed_after_validation(st))
         ELSE Edge(node)

\* the node entered after `node` returned state st; a node returns the state
\* from its try and from its except branch alike
Successor(node, st, node_failed) ==
    IF node = "validate_safety"
    THEN ConditionalEdge(_should_proceed_after_validation(st))
    ELSE Edge(node)

\* SchemaAnalyzerAgent.analyze: the placeholder structure
analyze(connection_name) ==
    [ connection_name |-> connection_name,
      table_relationships |-> <<>>,
      business_context |-> <<>>,
      query_patterns |-> <<>>,
      optimization_opportunities |-> <<>>,
      data_quality_insights |-> <<>> ]

_analyze_schema_node(st, req, node_failed) ==
    IF node_failed
    THEN [st EXCEPT !.errors = Append(@, ErrorText("Schema analysis error"))]
    ELSE [st EXCEPT !.schema_info = analyze(req.connection_name)]

\* QueryGeneratorAgent.generate: the model's answer, cleaned
generate(raw) == _clean_sql_response(raw)

\* the generate_query node with the failure caught inside generate
_generate_query_node_Swallowed(st, raw, node_failed) ==
    IF node_failed THEN st ELSE [st EXCEPT !.generated_sql = generate(raw)]

_generate_query_node(st, raw, node_failed) ==
    IF node_failed
    THEN [st EXCEPT !.errors = Append(@, ErrorText("Query generation error"))]
    ELSE [st EXCEPT !.generated_sql = generate(raw)]

\* the validate_safety node never adding the issues to state.errors
ValidationErrors_Dropped(result) == <<>>

\* if not validation_result.is_safe: state.errors.extend(validation_result.issues)
ValidationErrors(result) == IF ~result.is_safe THEN result.issues ELSE <<>>

\* the except branch of validate returning a safe verdict
ValidationErrorResult_FailsOpen(text) ==
    [ is_safe |-> TRUE,
      issues |-> << << "Validation error", ": " >> \o text >>,
      risk_level |-> "low",
      recommendations |-> << "Please review the query manually" >> ]

\* SafetyValidatorAgent.validate, its except branch; text is str(e)
ValidationErrorResult(text) ==
    [ is_safe |-> FALSE,
      issues |-> << << "Validation error", ": " >> \o text >>,
      risk_level |-> "high",
      recommendations |-> << "Please review the query manually" >> ]

\* validator_failed: an exception inside validate, caught by validate;
\* node_failed: an exception in the node itself
_validate_safety_node(st, allow_write, allow_schema, validator_failed, node_failed) ==
    IF node_failed
    THEN [st EXCEPT !.errors = Append(@, ErrorText("Safety validation error")),
                    !.safety_validated = FALSE]
    ELSE LET validation_result ==
                 IF validator_failed THEN ValidationErrorResult(ExceptionText)
                 ELSE validate(st.generated_sql, allow_write, allow_schema)
         IN  [st EXCEPT !.safety_validated = validation_result.is_safe,
                        !.errors = @ \o ValidationErrors(validation_result)]

\* _apply_optimizations rewriting the keywords in upper case
_apply_optimizations_Upper(sql) == Upper(sql)

\* _apply_optimizations adding a row limit to the query
_apply_optimizations_AddsLimit(sql) == sql \o << " ", "LIMIT", " ", "1000" >>

\* QueryOptimizerAgent._apply_optimizations: no rewriting
_apply_optimizations(sql) == sql

\* len(re.findall(r'\bW\b', sql_query, re.IGNORECASE))
CountWord(s, w) ==
    Cardinality({i \in 1..Len(s) :
        LitAt(s, i, w) /\ BoundaryBefore(s, i) /\ BoundaryAfter(s, i)})

\* len(re.findall(r'\bW1 W2\b', sql_query, re.IGNORECASE)): one blank between
CountWordBlankWord(s, w1, w2) ==
    Cardinality({i \in 1..Len(s) :
        /\ LitAt(s, i, w1) /\ BoundaryBefore(s, i)
        /\ i + 2 <= Len(s) /\ s[i + 1] = " "
        /\ LitAt(s, i + 2, w2) /\ BoundaryAfter(s, i + 2)})

\* sql_query.count('*')
CountStar(s) == Cardinality({i \in 1..Len(s) : s[i] = "*"})

\* QueryOptimizerAgent._calculate_complexity
_calculate_complexity(s) ==
    CountWord(s, "JOIN") * 2
    + CountWord(s, "SELECT") * 1
    + CountWord(s, "WHERE") * 1
    + CountWordBlankWord(s, "GROUP", "BY") * 2
    + CountWordBlankWord(s, "ORDER", "BY") * 2
    + CountWord(s, "HAVING") * 2
    + CountStar(s) * 1

\* f"{x:.1f}" of x = (a / b) * 100, in tenths; a tie goes to the even digit
PercentTenths(a, b) ==
    LET q == (a * 1000) \div b
        r == (a * 1000) % b
    IN  IF 2 * r < b THEN q
        ELSE IF 2 * r > b THEN q + 1
        ELSE IF q % 2 = 0 THEN q ELSE q + 1

\* QueryOptimizerAgent._estimate_improvement
_estimate_improvement(original_query, optimized_query) ==
    IF original_query = optimized_query
    THEN << "No optimizations applied" >>
    ELSE LET original_complexity == _calculate_complexity(original_query)
             optimized_complexity == _calculate_complexity(optimized_query)
         IN  IF optimized_complexity < original_complexity
             THEN << "Estimated ",
                     PercentTenths(original_complexity - optimized_complexity,
                                   original_complexity),
                     "% performance improvement" >>
             ELSE << "Performance impact analysis needed" >>

\* QueryOptimizerAgent.optimize on a text: optimized_query and
\* performance_improvement of its result; schema_info is not read
optimize(sql, schema_info) ==
    LET optimized_query == _apply_optimizations(sql)
    IN  [ optimized_query |-> optimized_query,
          performance_improvement |-> _estimate_improvement(sql, optimized_query) ]

\* metadata is modelled by the keys set in it
_optimize_query_node(st, node_failed) ==
    IF node_failed
    THEN [st EXCEPT !.errors = Append(@, ErrorText("Query optimization error")),
                    !.optimized_sql = st.generated_sql]
    ELSE [st EXCEPT !.optimized_sql = optimize(st.generated_sql, st.schema_info).optimized_query,
                    !.metadata = @ \cup {"optimization_suggestions"}]

\* the execute_query node looking the connection up in the manager
_execute_query_node_ThroughManager(st, node_failed) ==
    IF node_failed \/ request.connection_name \notin DOMAIN connections
    THEN [st EXCEPT !.errors = Append(@, ErrorText("Query execution error"))]
    ELSE [st EXCEPT !.query_results = <<>>,
                    !.metadata = @ \cup {"execution_time"}]

\* the placeholder: no call to the database manager
_execute_query_node(st, node_failed) ==
    IF node_failed
    THEN [st EXCEPT !.errors = Append(@, ErrorText("Query execution error"))]
    ELSE [st EXCEPT !.query_results = <<>>,
                    !.metadata = @ \cup {"execution_time"}]

\* state.optimized_sql or state.generated_sql: the text handed to explain
ExplainedSql(st) ==
    IF st.optimized_sql # <<>> THEN st.optimized_sql ELSE st.generated_sql

\* ResultExplainerAgent.explain: a failure of the model call is caught inside;
\* the explanation is the model's free text, whatever sql_query is
explain(sql_query_text, llm_failed) ==
    IF llm_failed THEN << "Unable to generate explanation", ": " >> \o ExceptionText
    ELSE << "<explanation>" >>

_explain_results_node(st, llm_failed, node_failed) ==
    IF node_failed
    THEN [st EXCEPT !.errors = Append(@, ErrorText("Result explanation error")),
                    !.explanation = << "Unable to generate explanation" >>]
    ELSE [st EXCEPT !.explanation = explain(ExplainedSql(st), llm_failed)]

\* the response with sql_query taken from optimized_sql alone
BuildResponse_NoFallback(st) ==
    [ success |-> Len(st.errors) = 0,
      sql_query |-> st.optimized_sql,
      explanation |-> st.explanation,
      results |-> st.query_results,
      metadata |-> st.metadata,
      error |-> IF st.errors # <<>> THEN << Join(st.errors, "; ") >> ELSE None ]

\* process_query: the QueryResponse built from the final state
BuildResponse(st) ==
    [ success |-> Len(st.errors) = 0,
      sql_query |-> IF st.optimized_sql # <<>> THEN st.optimized_sql ELSE st.generated_sql,
      explanation |-> st.explanation,
      results |-> st.query_results,
      metadata |-> st.metadata,
      error |-> IF st.errors # <<>> THEN << Join(st.errors, "; ") >> ELSE None ]

\* process_query: the QueryResponse of its except branch
CrashResponse(text) ==
    [ success |-> FALSE,
      sql_query |-> <<>>,
      explanation |-> << "Workflow processing failed" >>,
      results |-> <<>>,
      metadata |-> {},
      error |-> << text >> ]

\* str(e) of an exception: any text, the empty one included
ExceptionTexts == { <<>>, ExceptionText }

\* DatabaseQueryAgent.query: the QueryResponse of its except branch
QueryFailure(text) ==
    [ success |-> FALSE,
      sql_query |-> <<>>,
      explanation |-> << "Failed to process query" >>,
      results |-> <<>>,
      metadata |-> {},
      error |-> << text >> ]

\* query without its try / except
query_Unguarded(outcome) == outcome

\* DatabaseQueryAgent.query: what the caller gets when building the request
\* and calling process_query gave outcome (a QueryResponse, or Raised(text))
query(outcome) ==
    IF "raised" \in DOMAIN outcome THEN QueryFailure(outcome.raised) ELSE outcome

---------------------------------------------------------------------------
(* The agent: connections are added and removed and queries are served,    *)
(* one call at a time                                                      *)

Init ==
    /\ allow_write_operations \in BOOLEAN
    /\ allow_schema_changes \in BOOLEAN
    /\ ValidatorIdle
    /\ CleanerIdle
    /\ OptimizerIdle
    /\ ManagerInit
    /\ store_rows \in [SqlConnectionStrings -> StoreContents]
    /\ NoCall
    /\ NoConcurrentCalls
    /\ NoCostCall
    /\ ProvidersIdle
    /\ WorkflowIdle

\* DatabaseQueryAgent.connect_database
ConnectDatabase ==
    /\ pc = "idle"
    /\ \E name \in ConnectionNames, cs \in ConnectionStrings,
          outcome \in {"connected", "open fails", "probe fails"} :
            /\ add_connection(name, cs, outcome)
            /\ returned' = << [ op |-> "connect_database", name |-> name, driver |-> outcome,
                             result |-> Returned(add_connection_value(outcome)) ] >>
    /\ UNCHANGED <<store_rows, settingsVars, validatorVars, cleanerVars, optimizerVars,
                   concurrentVars, costVars, providerVars, workflowVars>>

\* DatabaseQueryAgent.disconnect
Disconnect ==
    /\ pc = "idle"
    /\ \E name \in ConnectionNames, outcome \in {"removed", "dispose fails", "close fails"} :
            /\ remove_connection(name, outcome)
            /\ returned' = << [ op |-> "disconnect", name |-> name, driver |-> outcome,
                             result |-> Returned(remove_connection_value(outcome)) ] >>
    /\ UNCHANGED <<store_rows, settingsVars, validatorVars, cleanerVars, optimizerVars,
                   concurrentVars, costVars, providerVars, workflowVars>>

\* DatabaseQueryAgent.disconnect_all
DisconnectAll ==
    /\ pc = "idle"
    /\ \E outcomes \in [DOMAIN connections -> {"removed", "dispose fails", "close fails"}] :
            /\ close_all_connections(outcomes)
            /\ returned' = << [ op |-> "disconnect_all", name |-> "", driver |-> outcomes,
                             result |-> Returned(None) ] >>
    /\ UNCHANGED <<store_rows, settingsVars, validatorVars, cleanerVars, optimizerVars,
                   concurrentVars, costVars, providerVars, workflowVars>>

\* DatabaseQueryAgent.get_schema_info
GetSchemaInfo ==
    /\ pc = "idle"
    /\ \E name \in ConnectionNames : \E result \in get_schema_info(name) :
            returned' = << [ op |-> "get_schema_info", name |-> name, driver |-> "", result |-> result ] >>
    /\ UNCHANGED <<managerVars, settingsVars, validatorVars, cleanerVars, optimizerVars,
                   concurrentVars, costVars, providerVars, workflowVars>>

\* DatabaseManager.execute_query called on the manager
ManagerExecuteQuery ==
    /\ pc = "idle"
    /\ \E name \in ConnectionNames : \E result \in execute_query_call(name) :
            returned' = << [ op |-> "execute_query", name |-> name, driver |-> "", result |-> result ] >>
    /\ UNCHANGED <<managerVars, settingsVars, validatorVars, cleanerVars, optimizerVars,
                   concurrentVars, costVars, providerVars, workflowVars>>

\* DatabaseQueryAgent.query up to the first node of the graph
StartQuery ==
    /\ pc = "idle"
    /\ \E q \in Questions, name \in ConnectionNames :
            request' = [query |-> q, connection_name |-> name, context |-> [k \in {} |-> <<>>]]
    /\ state' = DatabaseQueryState
    /\ pc' = Edge("START")
    /\ visited' = << Edge("START") >>
    /\ returned' = <<>>
    /\ UNCHANGED <<llm_output, failed, response, settingsVars, validatorVars,
                   cleanerVars, optimizerVars, concurrentVars, costVars, providerVars, managerVars>>

\* DatabaseQueryAgent.query with arguments QueryRequest does not accept:
\* building the request raises inside the try of query
QueryRequestInvalid ==
    /\ pc = "idle"
    /\ \E text \in ExceptionTexts : response' = << query(Raised(text)) >>
    /\ pc' = "done"
    /\ returned' = <<>>
    /\ UNCHANGED <<request, llm_output, state, visited, failed, settingsVars, validatorVars,
                   cleanerVars, optimizerVars, concurrentVars, costVars, providerVars, managerVars>>

\* a node has returned new_state (the node function is applied once per
\* step: new_state is bound by the caller)
\* excepts: the try blocks that took their except branch in this step
\* (a node, or "validate" for SafetyValidatorAgent.validate)
Returns(node, new_state, node_failed, excepts) ==
    /\ state' = new_state
    /\ pc' = Successor(node, new_state, node_failed)
    /\ visited' = Append(visited, Successor(node, new_state, node_failed))
    /\ failed' = failed \cup excepts
    /\ UNCHANGED <<request, response, settingsVars, validatorVars, cleanerVars, optimizerVars, concurrentVars, costVars, providerVars, managerVars, callVars>>

NodeReturns(node, new_state, node_failed) ==
    Returns(node, new_state, node_failed, IF node_failed THEN {node} ELSE {})

AnalyzeSchema ==
    /\ pc = "analyze_schema"
    /\ \E node_failed \in BOOLEAN :
            \E new_state \in { _analyze_schema_node(state, request, node_failed) } :
                NodeReturns(pc, new_state, node_failed)
    /\ UNCHANGED llm_output

GenerateQuery ==
    /\ pc = "generate_query"
    /\ \E raw \in LlmResponses, node_failed \in BOOLEAN :
            /\ llm_output' = IF node_failed THEN llm_output ELSE raw
            /\ \E new_state \in { _generate_query_node(state, raw, node_failed) } :
                    NodeReturns(pc, new_state, node_failed)

ValidateSafety ==
    /\ pc = "validate_safety"
    /\ \E validator_failed \in BOOLEAN, node_failed \in BOOLEAN :
            /\ ~(validator_failed /\ node_failed)
            /\ \E new_state \in { _validate_safety_node(state, allow_write_operations,
                                                         allow_schema_changes,
                                                         validator_failed, node_failed) } :
                    Returns(pc, new_state, node_failed,
                            IF validator_failed THEN {"validate"}
                            ELSE IF node_failed THEN {pc} ELSE {})
    /\ UNCHANGED llm_output

OptimizeQuery ==
    /\ pc = "optimize_query"
    /\ \E node_failed \in BOOLEAN :
            \E new_state \in { _optimize_query_node(state, node_failed) } :
                NodeReturns(pc, new_state, node_failed)
    /\ UNCHANGED llm_output

ExecuteQuery ==
    /\ pc = "execute_query"
    /\ \E node_failed \in BOOLEAN :
            \E new_state \in { _execute_query_node(state, node_failed) } :
                NodeReturns(pc, new_state, node_failed)
    /\ UNCHANGED llm_output

ExplainResults ==
    /\ pc = "explain_results"
    /\ \E llm_failed \in BOOLEAN, node_failed \in BOOLEAN :
            \E new_state \in { _explain_results_node(state, llm_failed, node_failed) } :
                NodeReturns(pc, new_state, node_failed)
    /\ UNCHANGED llm_output

\* graph.ainvoke returned: process_query builds the response
BuildAndReturn ==
    /\ pc = "end"
    /\ response' = << query(BuildResponse(state)) >>
    /\ pc' = "done"
    /\ UNCHANGED <<request, llm_output, state, visited, failed, settingsVars,
                   validatorVars, cleanerVars, optimizerVars, concurrentVars, costVars, providerVars, managerVars, callVars>>

\* graph.ainvoke raised: the except branch of process_query
WorkflowCrash ==
    /\ pc \in Nodes
    /\ \E text \in ExceptionTexts : response' = << query(CrashResponse(text)) >>
    /\ pc' = "done"
    /\ UNCHANGED <<request, llm_output, state, visited, failed, settingsVars,
                   validatorVars, cleanerVars, optimizerVars, concurrentVars, costVars, providerVars, managerVars, callVars>>

\* the caller has the response; the next call starts from a fresh state
QueryReturned ==
    /\ pc = "done"
    /\ pc' = "idle"
    /\ request' = NoRequest
    /\ llm_output' = <<>>
    /\ state' = DatabaseQueryState
    /\ visited' = <<>>
    /\ failed' = {}
    /\ response' = <<>>
    /\ UNCHANGED <<settingsVars, validatorVars, cleanerVars, optimizerVars, concurrentVars, costVars, providerVars, managerVars, callVars>>

Next ==
    \/ ConnectDatabase
    \/ Disconnect
    \/ DisconnectAll
    \/ GetSchemaInfo
    \/ ManagerExecuteQuery
    \/ StartQuery
    \/ QueryRequestInvalid
    \/ AnalyzeSchema
    \/ GenerateQuery
    \/ ValidateSafety
    \/ OptimizeQuery
    \/ ExecuteQuery
    \/ ExplainResults
    \/ BuildAndReturn
    \/ WorkflowCrash
    \/ QueryReturned

Spec == Init /\ [][Next]_vars

---------------------------------------------------------------------------
(* Properties of the workflow *)

GatedStages == {"optimize_query", "execute_query", "explain_results"}

Entered(node) == \E i \in 1..Len(visited) : visited[i] = node

\* the node at position i of visited has returned
Finished(node) == \E i \in 1..(Len(visited) - 1) : visited[i] = node

\* process_query returned the response it built from the final state
Completed == pc = "done" /\ visited # <<>> /\ visited[Len(visited)] = "end"

\* C1: optimize_query, execute_query and explain_results are entered only
\* after validate_safety has finished with a safe verdict; when the verdict is
\* unsafe the node entered after validate_safety is end and none of the three
\* is ever entered.
C1_GateBeforeExecution ==
    /\ \A i \in 1..Len(visited) :
            visited[i] \in GatedStages =>
                /\ \E j \in 1..(i - 1) : visited[j] = "validate_safety"
                /\ state.safety_validated
    /\ \A i \in 1..(Len(visited) - 1) :
            (visited[i] = "validate_safety" /\ ~state.safety_validated) =>
                /\ visited[i + 1] = "end"
                /\ Len(visited) = i + 1
                /\ \A node \in GatedStages : ~Entered(node)

C1_Witness ==
    /\ Completed
    /\ llm_output = << "DROP", " ", "TABLE", " ", "users" >>
    /\ "validate_safety" \notin failed
    /\ ~state.safety_validated
    /\ visited = << "analyze_schema", "generate_query", "validate_safety", "end" >>

\* the validator judged the generated SQL of this request unsafe
JudgedUnsafe ==
    /\ Finished("validate_safety")
    /\ "validate_safety" \notin failed
    /\ ~validate(state.generated_sql, allow_write_operations, allow_schema_changes).is_safe

\* C2: a request whose generated SQL the validator judged unsafe gets a
\* response with success False, no results and a non-empty error text, and
\* execute_query is never entered for it; a response with success True is
\* returned only when the safety verdict was safe.
C2_UnsafeRequestRejected ==
    pc = "done" =>
        /\ JudgedUnsafe =>
              /\ response[1].success = FALSE
              /\ response[1].results = <<>>
              /\ response[1].error # None
              /\ response[1].error[1] # <<>>
              /\ ~Entered("execute_query")
        /\ response[1].success => state.safety_validated

C2_Witness ==
    /\ pc = "done"
    /\ JudgedUnsafe
    /\ state.generated_sql = << "DROP", " ", "TABLE", " ", "users" >>
    /\ response[1].success = FALSE
    /\ response[1].results = <<>>

\* C7: the response built from a final state has success = (errors is
\* empty), sql_query = optimized_sql if that is non-empty and generated_sql
\* otherwise, explanation and results as in the state, and error = the errors
\* joined with "; " if there are any and None otherwise; so success is True
\* exactly when error is None.
C7_ResponseAggregatesState ==
    Completed =>
        /\ response[1].success = (state.errors = <<>>)
        /\ state.optimized_sql # <<>> => response[1].sql_query = state.optimized_sql
        /\ state.optimized_sql = <<>> => response[1].sql_query = state.generated_sql
        /\ response[1].explanation = state.explanation
        /\ response[1].results = state.query_results
        /\ state.errors # <<>> => response[1].error = << Join(state.errors, "; ") >>
        /\ state.errors = <<>> => response[1].error = None
        /\ response[1].success <=> response[1].error = None

C7_Witness ==
    /\ Completed
    /\ Len(state.errors) >= 2
    /\ state.optimized_sql # <<>>
    /\ response[1].sql_query = state.optimized_sql
    /\ response[1].error # None

\* the stages of C8
UngatedStages ==
    {"analyze_schema", "generate_query", "optimize_query", "execute_query",
     "explain_results"}

\* the node at pc returns from its except branch in this step
NodeFails == pc \in UngatedStages /\ pc \notin failed /\ pc \in failed'

\* C8: when analyze_schema, generate_query, optimize_query, execute_query or
\* explain_results catches a failure, exactly one error text is appended to
\* state.errors and the node that follows it in the graph is entered.  When
\* query generation failed, generated_sql is empty, validate_safety runs on
\* it, and if the verdict is safe then optimize_query, execute_query and
\* explain_results have all been entered when the response, with success
\* False, is produced.
C8_FailureDoesNotStopPipeline ==
    /\ [][NodeFails =>
            /\ Len(state'.errors) = Len(state.errors) + 1
            /\ SubSeq(state'.errors, 1, Len(state.errors)) = state.errors
            /\ pc' = Edge(pc)
            /\ visited' = Append(visited, Edge(pc))]_vars
    /\ []("generate_query" \in failed => state.generated_sql = <<>>)
    /\ []((Completed /\ "generate_query" \in failed /\ state.safety_validated) =>
            /\ \A node \in GatedStages : Entered(node)
            /\ response[1].success = FALSE)

C8_Witness ==
    /\ Completed
    /\ "generate_query" \in failed
    /\ "validate_safety" \notin failed
    /\ state.safety_validated
    /\ Entered("explain_results")
    /\ response[1].success = FALSE

\* the request passed the gate and names a registered SQL connection
PassedGateOnSqlStore ==
    /\ Completed
    /\ state.safety_validated
    /\ Entered("execute_query")
    /\ "execute_query" \notin failed
    /\ request.connection_name \in DOMAIN connections
    /\ connections[request.connection_name].database_type # "mongodb"

\* C9: when a request passes the safety gate, the results of the response
\* are the rows the store registered under request.connection_name returned.
C9_ResultsAreRowsOfStore ==
    PassedGateOnSqlStore => response[1].results = execute_query(request.connection_name)

---------------------------------------------------------------------------
(* optimize on its own: every input text, with and without a schema *)

OptimizerAlphabet ==
    {"SELECT", "select", "*", "FROM", "users", "WHERE", "JOIN", "GROUP", "BY", " "}

OptimizerInputs ==
    SeqsUpTo(OptimizerAlphabet, MaxOptLen)
        \cup { << "SELECT", " ", "*", " ", "FROM", " ", "users", " ", "JOIN", " ", "t",
                  " ", "GROUP", " ", "BY", " ", "id" >>,
               << "select", " ", "id", " ", "from", " ", "users", " ", "where", " ",
                  "id", "=", "1" >> }

OptimizerSchemas == { [k \in {} |-> <<>>], analyze("default") }

InitOptimize ==
    /\ allow_write_operations = FALSE
    /\ allow_schema_changes = FALSE
    /\ sql_query \in OptimizerInputs
    /\ validation = <<>>
    /\ CleanerIdle
    /\ optimization = <<>>
    /\ ManagerInit
    /\ store_rows = [cs \in {} |-> <<>>]
    /\ NoCall
    /\ NoConcurrentCalls
    /\ NoCostCall
    /\ ProvidersIdle
    /\ WorkflowIdle

Optimize ==
    /\ optimization = <<>>
    /\ \E schema_info \in OptimizerSchemas :
            optimization' = << optimize(sql_query, schema_info) >>
    /\ UNCHANGED <<settingsVars, validatorVars, cleanerVars, concurrentVars, costVars, providerVars, managerVars, callVars,
                   workflowVars>>

NextOptimize == Optimize

SpecOptimize == InitOptimize /\ [][NextOptimize]_vars

\* C11: optimize returns optimized_query identical to its input, and with
\* optimized_query equal to the input it reports performance_improvement
\* "No optimizations applied".
C11_OptimizeIsIdentity ==
    optimization # <<>> =>
        /\ optimization[1].optimized_query = sql_query
        /\ optimization[1].optimized_query = sql_query =>
                optimization[1].performance_improvement = << "No optimizations applied" >>

C11_Witness ==
    /\ optimization # <<>>
    /\ sql_query = << "select", " ", "id", " ", "from", " ", "users", " ", "where", " ",
                      "id", "=", "1" >>
    /\ optimization[1].optimized_query = sql_query
    /\ optimization[1].performance_improvement = << "No optimizations applied" >>

---------------------------------------------------------------------------
(* Properties of the database manager *)

\* the last call on the manager was op
LastCall(op) == returned # <<>> /\ returned[1].op = op

\* this step is a connect_database call during which the handle could not
\* be opened or the liveness probe failed
ConnectFails ==
    /\ returned' # <<>>
    /\ returned'[1].op = "connect_database"
    /\ returned'[1].driver \in {"open fails", "probe fails"}

\* C12: when opening the handle or the liveness probe fails, connect_database
\* returns False and connections, engines and mongo_clients are as they were
\* before the call; a name that was not registered before the call is not in
\* list_connections after it.
C12_FailedConnectChangesNothing ==
    [][ConnectFails =>
            /\ returned'[1].result = Returned(FALSE)
            /\ connections' = connections
            /\ engines' = engines
            /\ mongo_clients' = mongo_clients
            /\ returned'[1].name \notin DOMAIN list_connections =>
                    returned'[1].name \notin DOMAIN list_connections']_vars

C12_Witness ==
    /\ LastCall("connect_database")
    /\ returned[1].driver = "probe fails"
    /\ returned[1].result = Returned(FALSE)
    /\ returned[1].name \notin DOMAIN list_connections
    /\ DOMAIN list_connections # {}

---------------------------------------------------------------------------
(* Properties of the workflow: failures of the model calls *)

\* some text of state.errors begins with what
HasError(what) ==
    \E i \in 1..Len(state.errors) : state.errors[i][1] = what

\* explain caught a failure of the model call and returned the placeholder
ExplainReturnedPlaceholder ==
    state.explanation = << "Unable to generate explanation", ": " >> \o ExceptionText

\* C13: a failure of the model call in generate reaches the workflow, which
\* records a "Query generation error", so the response has success False; a
\* failure of the model call in explain is returned as a placeholder
\* explanation and adds nothing to errors, so success depends on the earlier
\* stages only.
C13_GenerationFailsLoudExplanationFailsQuiet ==
    Completed =>
        /\ "generate_query" \in failed =>
                /\ HasError("Query generation error")
                /\ response[1].success = FALSE
        /\ ExplainReturnedPlaceholder =>
                /\ ~HasError("Result explanation error")
                /\ response[1].explanation = state.explanation
                /\ "explain_results" \notin failed
                /\ failed = {} => response[1].success = TRUE

C13_Witness ==
    /\ Completed
    /\ ExplainReturnedPlaceholder
    /\ state.errors = <<>>
    /\ response[1].success = TRUE

---------------------------------------------------------------------------
(* One agent serving requests one after the other.  Every node awaits calls *)
(* that return or raise, so a run that has started keeps taking steps: weak *)
(* fairness on the steps of a run.                                          *)

RunStep ==
    \/ AnalyzeSchema
    \/ GenerateQuery
    \/ ValidateSafety
    \/ OptimizeQuery
    \/ ExecuteQuery
    \/ ExplainResults
    \/ BuildAndReturn
    \/ WorkflowCrash

NextRun ==
    \/ StartQuery
    \/ QueryRequestInvalid
    \/ RunStep
    \/ QueryReturned

SpecRun == Init /\ [][NextRun]_vars /\ WF_vars(RunStep)

\* s is an initial part of t
IsPrefix(s, t) == Len(s) <= Len(t) /\ SubSeq(t, 1, Len(s)) = s

\* the two orders in which the graph can be walked
AllowedRuns ==
    { << "analyze_schema", "generate_query", "validate_safety", "end" >>,
      << "analyze_schema", "generate_query", "validate_safety", "optimize_query",
         "execute_query", "explain_results", "end" >> }

\* C14: every run of process_query ends with a response; the stages are
\* entered in the order analyze_schema, generate_query, validate_safety, then
\* end, or optimize_query, execute_query, explain_results, end; no stage is
\* entered twice, whatever stages fail.
C14_RunsTerminateInOrder ==
    /\ [](\E run \in AllowedRuns : IsPrefix(visited, run))
    /\ [](\A i, j \in 1..Len(visited) : visited[i] = visited[j] => i = j)
    /\ [](pc = "done" => response # <<>>)
    /\ (pc \in Nodes) ~> (pc = "done")

C14_Witness ==
    /\ Completed
    /\ failed = UngatedStages
    /\ Len(visited) = 7
    /\ response # <<>>

---------------------------------------------------------------------------
(* Properties of the database manager: reading calls *)

ReadingCalls == {"execute_query", "get_schema_info"}

\* the query of the last execute_query call reached the SQL engine
RanOnEngine ==
    /\ LastCall("execute_query")
    /\ returned[1].result \in
            {Raised("driver error")} \cup {Returned(rows) : rows \in StoreContents}

\* C15: execute_query and get_schema_info raise 'connection not found' for
\* every name that is not in the connection table; execute_query raises 'not
\* implemented' for every registered connection whose recorded type is
\* mongodb, and its query reaches a SQL engine only for the other registered
\* connections; none of these calls changes the connection table.
C15_ReadingCallsCheckTheTable ==
    /\ [](\A op \in ReadingCalls :
            (LastCall(op) /\ returned[1].name \notin DOMAIN connections) =>
                returned[1].result = Raised("ValueError: Connection not found"))
    /\ []((/\ LastCall("execute_query")
           /\ returned[1].name \in DOMAIN connections
           /\ connections[returned[1].name].database_type = "mongodb") =>
                returned[1].result = Raised("NotImplementedError"))
    /\ [](RanOnEngine =>
            /\ returned[1].name \in DOMAIN connections
            /\ connections[returned[1].name].database_type # "mongodb"
            /\ returned[1].name \in engines)
    /\ [][(returned' # <<>> /\ returned'[1].op \in ReadingCalls) =>
            UNCHANGED <<connections, engines, mongo_clients>>]_vars

C15_Witness ==
    /\ LastCall("execute_query")
    /\ returned[1].name \in DOMAIN connections
    /\ connections[returned[1].name].database_type = "mongodb"
    /\ returned[1].name \in engines
    /\ returned[1].result = Raised("NotImplementedError")

---------------------------------------------------------------------------
(* Properties of the database manager: lifetime of a connection *)

\* the last call was disconnect_all and no driver call failed during it
DisconnectedAllCleanly ==
    /\ LastCall("disconnect_all")
    /\ \A name \in DOMAIN returned[1].driver : returned[1].driver[name] = "removed"

\* C16: after disconnect(name) returned True the name is in none of
\* connections, engines, mongo_clients; after disconnect_all completed
\* without a driver error list_connections is empty and engines and
\* mongo_clients hold no handle; a step that takes a name out of the
\* connection table is a disconnect or a disconnect_all.
C16_ConnectionsLiveUntilRemoved ==
    /\ []((LastCall("disconnect") /\ returned[1].result = Returned(TRUE)) =>
            /\ returned[1].name \notin DOMAIN connections
            /\ returned[1].name \notin engines
            /\ returned[1].name \notin mongo_clients)
    /\ [](DisconnectedAllCleanly =>
            /\ DOMAIN list_connections = {}
            /\ engines = {}
            /\ mongo_clients = {})
    /\ [][(\E name \in DOMAIN connections : name \notin DOMAIN connections') =>
            /\ returned' # <<>>
            /\ returned'[1].op \in {"disconnect", "disconnect_all"}]_vars

C16_Witness ==
    /\ DisconnectedAllCleanly
    /\ DOMAIN returned[1].driver = ConnectionNames
    /\ DOMAIN list_connections = {}
    /\ engines = {}
    /\ mongo_clients = {}

---------------------------------------------------------------------------
(* Properties of the database manager: the is_active flag *)

\* C19: a DatabaseConnection built without is_active is inactive; every
\* record in the connection table was stored with is_active True, so every
\* entry of list_connections reports is_active True, after any sequence of
\* connect and disconnect calls.
C19_ListedConnectionsAreActive ==
    /\ \A cs \in ConnectionStrings :
            ~NewDatabaseConnection("default", cs, _get_database_type(cs), <<>>).is_active
    /\ \A name \in DOMAIN list_connections : list_connections[name].is_active = TRUE

C19_Witness ==
    /\ LastCall("disconnect")
    /\ returned[1].result = Returned(FALSE)
    /\ DOMAIN list_connections = ConnectionNames
    /\ \A name \in DOMAIN list_connections : list_connections[name].is_active = TRUE

\* C28 as stated: after any sequence of add_connection and remove_connection
\* calls, failing driver operations and re-adding a name with another store
\* type included, every name in connections has a handle in the table that
\* matches its recorded type, so get_schema_info and execute_query never fail
\* on a missing handle for a registered name.
C28_RegisteredNamesHaveHandles ==
    \A name \in DOMAIN connections :
        /\ IF connections[name].database_type = "mongodb"
           THEN name \in mongo_clients
           ELSE name \in engines
        /\ Raised("KeyError") \notin get_schema_info(name)
        /\ Raised("KeyError") \notin execute_query_call(name)

---------------------------------------------------------------------------
(* Properties of the facade *)

QueryResponseFields ==
    {"success", "sql_query", "explanation", "results", "metadata", "error"}

\* graph.ainvoke raised during this request
Crashed == pc = "done" /\ visited # <<>> /\ visited[Len(visited)] # "end"

\* C18: query hands a QueryResponse to its caller whatever the input and
\* whatever fails inside the workflow; when the workflow crashed the response
\* has success False, an empty sql_query, no results, and the text of the
\* exception as error.
C18_QueryAlwaysAnswers ==
    pc = "done" =>
        /\ response # <<>>
        /\ DOMAIN response[1] = QueryResponseFields
        /\ Crashed =>
              /\ response[1].success = FALSE
              /\ response[1].sql_query = <<>>
              /\ response[1].results = <<>>
              /\ \E text \in ExceptionTexts : response[1].error = << text >>

C18_Witness ==
    /\ Crashed
    /\ state.generated_sql # <<>>
    /\ response[1].success = FALSE
    /\ response[1].sql_query = <<>>
    /\ response[1].explanation = << "Workflow processing failed" >>
    /\ response[1].error = << ExceptionText >>

---------------------------------------------------------------------------
(* Several process_query calls on one DatabaseQueryWorkflow, interleaved   *)
(* between their nodes.  A call creates its DatabaseQueryState object,     *)
(* stores its request in it, and its nodes read and write that object.     *)

CallIds == {1, 2}

\* the request of call c
RequestOf(c) ==
    [ query |-> << "Show me all users" >>,
      connection_name |-> IF c = 1 THEN "default" ELSE "analytics",
      context |-> [k \in {} |-> <<>>] ]

ConcurrentLlmResponses ==
    { << "SELECT", " ", "*", " ", "FROM", " ", "users", ";" >>,
      << "DROP", " ", "TABLE", " ", "users" >> }

\* what can happen in a node: the model's answer, a failure caught by the
\* node, a failure caught inside the agent (validate, explain)
Outcome(node, raw, node_failed, inner_failed) ==
    [node |-> node, raw |-> raw, node_failed |-> node_failed, inner_failed |-> inner_failed]

Outcomes(node) ==
    CASE node = "generate_query" ->
            {Outcome(node, raw, FALSE, FALSE) : raw \in ConcurrentLlmResponses}
                \cup {Outcome(node, <<>>, TRUE, FALSE)}
      [] node \in {"validate_safety", "explain_results"} ->
            {Outcome(node, <<>>, FALSE, inner_failed) : inner_failed \in BOOLEAN}
                \cup {Outcome(node, <<>>, TRUE, FALSE)}
      [] OTHER ->
            {Outcome(node, <<>>, node_failed, FALSE) : node_failed \in BOOLEAN}

\* the node function of the graph applied to the state st of a request req
ApplyNode(st, req, outcome) ==
    CASE outcome.node = "analyze_schema" ->
            _analyze_schema_node(st, req, outcome.node_failed)
      [] outcome.node = "generate_query" ->
            _generate_query_node(st, outcome.raw, outcome.node_failed)
      [] outcome.node = "validate_safety" ->
            _validate_safety_node(st, allow_write_operations, allow_schema_changes,
                                  outcome.inner_failed, outcome.node_failed)
      [] outcome.node = "optimize_query" ->
            _optimize_query_node(st, outcome.node_failed)
      [] outcome.node = "execute_query" ->
            _execute_query_node(st, outcome.node_failed)
      [] outcome.node = "explain_results" ->
            _explain_results_node(st, outcome.inner_failed, outcome.node_failed)

\* one DatabaseQueryState object for the workflow, reset when a call starts
NewState_OnePerWorkflow(objects, req) ==
    [ ref |-> 1, objects |-> << [request |-> req, fields |-> DatabaseQueryState] >> ]

\* initial_state = DatabaseQueryState(); initial_state.request = request
NewState(objects, req) ==
    [ ref |-> Len(objects) + 1,
      objects |-> Append(objects, [request |-> req, fields |-> DatabaseQueryState]) ]

NotStarted ==
    [pc |-> "idle", ref |-> 0, overlaps |-> {}, trace |-> <<>>, response |-> <<>>]

InitConcurrent ==
    /\ allow_write_operations = FALSE
    /\ allow_schema_changes = FALSE
    /\ ValidatorIdle
    /\ CleanerIdle
    /\ OptimizerIdle
    /\ ManagerInit
    /\ store_rows = [cs \in {} |-> <<>>]
    /\ NoCall
    /\ heap = <<>>
    /\ calls = [c \in CallIds |-> NotStarted]
    /\ NoCostCall
    /\ ProvidersIdle
    /\ WorkflowIdle

\* the calls that have started and not returned
InProgress == {c \in CallIds : calls[c].pc \in Nodes \cup {"end"}}

otherVars ==
    <<settingsVars, validatorVars, cleanerVars, optimizerVars, costVars, providerVars,
      managerVars, callVars, workflowVars>>

\* process_query up to the first node of the graph
BeginCall(c) ==
    /\ calls[c].pc = "idle"
    /\ heap' = NewState(heap, RequestOf(c)).objects
    /\ calls' = [calls EXCEPT ![c] =
                    [ pc |-> Edge("START"),
                      ref |-> NewState(heap, RequestOf(c)).ref,
                      overlaps |-> InProgress,
                      trace |-> <<>>,
                      response |-> <<>> ]]
    /\ UNCHANGED otherVars

\* one node of the graph runs for call c
RunNode(c) ==
    /\ calls[c].pc \in Nodes
    /\ \E outcome \in Outcomes(calls[c].pc) :
         \E new_state \in { ApplyNode(heap[calls[c].ref].fields,
                                       heap[calls[c].ref].request, outcome) } :
             /\ heap' = [heap EXCEPT ![calls[c].ref].fields = new_state]
             /\ calls' = [calls EXCEPT
                            ![c].pc = Successor(calls[c].pc, new_state, outcome.node_failed),
                            ![c].trace = Append(@, outcome)]
    /\ UNCHANGED otherVars

\* graph.ainvoke returned for call c
ReturnResponse(c) ==
    /\ calls[c].pc = "end"
    /\ calls' = [calls EXCEPT ![c].pc = "done",
                              ![c].response = << BuildResponse(heap[calls[c].ref].fields) >>]
    /\ UNCHANGED <<heap, otherVars>>

\* graph.ainvoke raised for call c
CallCrashes(c) ==
    /\ calls[c].pc \in Nodes
    /\ calls' = [calls EXCEPT ![c].pc = "crashed",
                              ![c].response = << CrashResponse(ExceptionText) >>]
    /\ UNCHANGED <<heap, otherVars>>

NextConcurrent ==
    \E c \in CallIds :
        \/ BeginCall(c)
        \/ RunNode(c)
        \/ ReturnResponse(c)
        \/ CallCrashes(c)

SpecConcurrent == InitConcurrent /\ [][NextConcurrent]_vars

\* the state a request reaches when its nodes run with the outcomes of trace
\* and nothing else touches its state
RECURSIVE Alone(_, _, _)
Alone(st, req, trace) ==
    IF trace = <<>> THEN st
    ELSE Alone(ApplyNode(st, req, Head(trace)), req, Tail(trace))

\* C17: with process_query calls interleaved, the response of each call is
\* built from what its own stages produced: its errors, sql_query, metadata
\* and results are those of the same request run alone with the same
\* outcomes of its stages.
C17_CallsDoNotShareState ==
    \A c \in CallIds :
        calls[c].pc = "done" =>
            LET alone == BuildResponse(Alone(DatabaseQueryState, RequestOf(c), calls[c].trace))
                got == calls[c].response[1]
            IN  /\ got.error = alone.error
                /\ got.sql_query = alone.sql_query
                /\ got.metadata = alone.metadata
                /\ got.results = alone.results
                /\ got.success = alone.success

C17_Witness ==
    /\ calls[1].pc = "done"
    /\ calls[2].pc = "done"
    /\ calls[2].overlaps = {1}
    /\ calls[1].trace # <<>>
    /\ calls[1].response[1].success = FALSE
    /\ calls[1].response[1].sql_query = << "DROP", " ", "TABLE", " ", "users" >>
    /\ calls[2].response[1].success = TRUE
    /\ calls[2].response[1].sql_query = << "SELECT", " ", "*", " ", "FROM", " ", "users" >>

---------------------------------------------------------------------------
(* Properties of the facade: query and the database manager *)

\* a step of DatabaseQueryAgent.query
QueryStep == pc' # pc \/ state' # state \/ response' # response

\* C27: no step of query changes connections, engines or mongo_clients; the
\* response of a completed query has success True exactly when no node
\* failed and the verdict was safe, whether or not request.connection_name
\* is a registered connection; a query on a name that was never connected is
\* not reported as an error.
C27_QueryLeavesManagerAlone ==
    /\ [][QueryStep => UNCHANGED <<connections, engines, mongo_clients, store_rows>>]_vars
    /\ [](Completed =>
            /\ response[1].success <=> (failed = {} /\ state.safety_validated)
            /\ (failed = {} /\ state.safety_validated) => response[1].error = None)

C27_Witness ==
    /\ Completed
    /\ Entered("execute_query")
    /\ DOMAIN connections # {}
    /\ request.connection_name \notin DOMAIN connections
    /\ response[1].success = TRUE
    /\ response[1].error = None

---------------------------------------------------------------------------
(* Properties of the workflow: the query text after validation *)

\* C26: on every run that passes the safety gate, the nodes after
\* validate_safety leave generated_sql as it was approved, the text handed
\* to explain is generated_sql, and response.sql_query is generated_sql,
\* whether optimize_query succeeds or fails.
C26_ApprovedTextIsReported ==
    /\ [][(pc \in GatedStages) => (state'.generated_sql = state.generated_sql)]_vars
    /\ [](pc = "explain_results" => ExplainedSql(state) = state.generated_sql)
    /\ []((Completed /\ Entered("optimize_query"))
            => response[1].sql_query = state.generated_sql)

C26_Witness ==
    /\ Completed
    /\ Finished("explain_results")
    /\ "optimize_query" \in failed
    /\ state.safety_validated
    /\ state.generated_sql = << "SELECT", " ", "*", " ", "FROM", " ", "users" >>
    /\ response[1].sql_query = state.generated_sql

---------------------------------------------------------------------------
(* Properties of the workflow: a failure during safety validation *)

\* validate returned from its except branch during this request
ValidatorBroke == "validate" \in failed

\* the validate_safety node returned from its except branch
ValidateNodeBroke == "validate_safety" \in failed

\* C23: when validate hits an internal exception it returns is_safe=False,
\* risk_level "high" and a "Validation error" issue; when the
\* validate_safety node itself raises, safety_validated is set to False; in
\* both cases optimize_query, execute_query and explain_results are not
\* entered and the response has success=False.
C23_ValidationFailsClosed ==
    /\ ValidatorBroke =>
          \A text \in ExceptionTexts :
              /\ ~ValidationErrorResult(text).is_safe
              /\ ValidationErrorResult(text).risk_level = "high"
              /\ ValidationErrorResult(text).issues[1][1] = "Validation error"
    /\ (ValidatorBroke \/ ValidateNodeBroke) =>
          /\ ~state.safety_validated
          /\ \A node \in GatedStages : ~Entered(node)
          /\ Completed => response[1].success = FALSE

C23_Witness ==
    /\ Completed
    /\ ValidatorBroke
    /\ ~ValidateNodeBroke
    /\ state.generated_sql = << "SELECT", " ", "*", " ", "FROM", " ", "users" >>
    /\ visited[Len(visited) - 1] = "validate_safety"
    /\ response[1].success = FALSE

---------------------------------------------------------------------------
(* SafetyValidatorAgent.estimate_query_cost *)

\* the atom after the run of word atoms that starts at atom j
RECURSIVE EndOfWord(_, _)
EndOfWord(s, j) ==
    IF j <= Len(s) /\ IsWord(s[j]) THEN EndOfWord(s, j + 1) ELSE j

\* the atom after the run of whitespace that starts at atom j
RECURSIVE EndOfSpace(_, _)
EndOfSpace(s, j) ==
    IF j <= Len(s) /\ IsSpace(s[j]) THEN EndOfSpace(s, j + 1) ELSE j

\* \bFROM\s+\w+ matches at atom i
FromTableAt(s, i) ==
    /\ LitAt(s, i, "FROM") /\ BoundaryBefore(s, i)
    /\ EndOfSpace(s, i + 1) > i + 1
    /\ EndOfSpace(s, i + 1) <= Len(s)
    /\ IsWord(s[EndOfSpace(s, i + 1)])

\* len(re.findall(r'\bFROM\s+\w+', sql_query, re.IGNORECASE)): the matches
\* from atom i on, each search starting where the last match ended
RECURSIVE CountFromTable(_, _)
CountFromTable(s, i) ==
    IF i > Len(s) THEN 0
    ELSE IF FromTableAt(s, i)
         THEN 1 + CountFromTable(s, EndOfWord(s, EndOfSpace(s, i + 1)))
         ELSE CountFromTable(s, i + 1)

AggregateWords == {"COUNT", "SUM", "AVG", "MIN", "MAX"}

\* len(re.findall(r'\b(COUNT|SUM|AVG|MIN|MAX|GROUP BY)\b', ...))
CountAggregations(s) ==
    Cardinality({i \in 1..Len(s) :
        \/ /\ UpperAtom(s[i]) \in AggregateWords
           /\ BoundaryBefore(s, i) /\ BoundaryAfter(s, i)
        \/ /\ LitAt(s, i, "GROUP") /\ BoundaryBefore(s, i)
           /\ i + 2 <= Len(s) /\ s[i + 1] = " "
           /\ LitAt(s, i + 2, "BY") /\ BoundaryAfter(s, i + 2)})

\* len(re.findall(r'\bSELECT\b', sql_query, re.IGNORECASE)) - 1
Subqueries(s) == CountWord(s, "SELECT") - 1

cost_factors(s) ==
    [ table_scans |-> CountFromTable(s, 1),
      joins |-> CountWord(s, "JOIN"),
      subqueries |-> Subqueries(s),
      aggregations |-> CountAggregations(s),
      sorts |-> CountWordBlankWord(s, "ORDER", "BY") ]

_get_performance_recommendations(factors) ==
    (IF factors.joins > 3
        THEN << "Consider reducing the number of joins or using subqueries" >> ELSE <<>>)
    \o (IF factors.subqueries > 2
        THEN << "Review subqueries for optimization opportunities" >> ELSE <<>>)
    \o (IF factors.sorts > 1
        THEN << "Multiple ORDER BY clauses may impact performance" >> ELSE <<>>)

estimate_query_cost(s) ==
    LET factors == cost_factors(s)
        cost_score == factors.table_scans * 1 + factors.joins * 2 + factors.subqueries * 3
                        + factors.aggregations * 2 + factors.sorts * 2
    IN  [ cost_score |-> cost_score,
          cost_level |-> IF cost_score <= 5 THEN "low"
                         ELSE IF cost_score <= 15 THEN "medium" ELSE "high",
          factors |-> factors,
          recommendations |-> _get_performance_recommendations(factors) ]

---------------------------------------------------------------------------
(* estimate_query_cost on its own: every input text *)

CostAlphabet ==
    {"SELECT", "select", "FROM", "users", "JOIN", "COUNT", "ORDER", "BY", " ", "(", "*"}

CostSamples ==
    { << "DELETE", " ", "FROM", " ", "users" >>,
      << "UPDATE", " ", "users", " ", "SET", " ", "id", "=", "1" >>,
      << "SELECT", " ", "COUNT", "(", "*", ")", " ", "FROM", " ", "users", " ", "JOIN", " ", "t",
         " ", "GROUP", " ", "BY", " ", "id", " ", "ORDER", " ", "BY", " ", "id" >>,
      << "SELECT", " ", "*", " ", "FROM", " ", "users", " ", "WHERE", " ", "id", " ", "IN",
         " ", "(", "SELECT", " ", "id", " ", "FROM", "\n", "t", ")" >>,
      << "SELECT", " ", "1", " ", "FROM", " ", "FROM", " ", "users" >> }

CostInputs == SeqsUpTo(CostAlphabet, MaxCostLen) \cup CostSamples

InitCost ==
    /\ allow_write_operations = FALSE
    /\ allow_schema_changes = FALSE
    /\ sql_query \in CostInputs
    /\ validation = <<>>
    /\ CleanerIdle
    /\ OptimizerIdle
    /\ ManagerInit
    /\ store_rows = [cs \in {} |-> <<>>]
    /\ NoCall
    /\ NoConcurrentCalls
    /\ cost = <<>>
    /\ ProvidersIdle
    /\ WorkflowIdle

EstimateQueryCost ==
    /\ cost = <<>>
    /\ cost' = << estimate_query_cost(sql_query) >>
    /\ UNCHANGED <<settingsVars, validatorVars, cleanerVars, optimizerVars, concurrentVars,
                   providerVars, managerVars, callVars, workflowVars>>

NextCost == EstimateQueryCost

SpecCost == InitCost /\ [][NextCost]_vars

\* C30 as stated: for every SQL text estimate_query_cost returns
\* non-negative counts for all cost factors, subqueries included, and a
\* non-negative cost_score, also for statements without a SELECT keyword.
C30_CostsAreNonNegative ==
    cost # <<>> =>
        /\ \A f \in DOMAIN cost[1].factors : cost[1].factors[f] >= 0
        /\ cost[1].cost_score >= 0

---------------------------------------------------------------------------
(* The chat clients of the agents.  DatabaseQueryWorkflow.__init__ builds   *)
(* the agents, each agent builds its self.llm; a request is then served and *)
(* the calls made on the clients are recorded.                              *)

Providers == {"openai", "ollama", "anthropic"}

\* LLMFactory.create_llm: the class of the client, the API keys being set
create_llm(provider) ==
    CASE provider = "openai" -> "ChatOpenAI"
      [] provider = "ollama" -> "ChatOllama"
      [] provider = "anthropic" -> "ChatAnthropic"

\* the provider a client of this class sends its calls to
ProviderOf(client) ==
    CASE client = "ChatOpenAI" -> "openai"
      [] client = "ChatOllama" -> "ollama"
      [] client = "ChatAnthropic" -> "anthropic"

\* self.llm of the three agents that hold a client
AgentClients(provider) ==
    [ schema_analyzer |-> create_llm(provider),
      query_generator |-> create_llm(provider),
      result_explainer |-> "ChatOpenAI" ]

\* the agent whose client a node calls; analyze_schema returns a placeholder
\* without a call
CallingAgent(node) ==
    CASE node = "generate_query" -> << "query_generator" >>
      [] node = "explain_results" -> << "result_explainer" >>
      [] OTHER -> <<>>

\* the calls a node can have made when it returns with this outcome: an
\* except branch, of the node or of the agent's method, is taken before the
\* call or in it
CallsMade(node, outcome) ==
    IF CallingAgent(node) = <<>> THEN { <<>> }
    ELSE IF outcome.node_failed \/ outcome.inner_failed THEN { <<>>, CallingAgent(node) }
    ELSE { CallingAgent(node) }

InitProviders ==
    /\ allow_write_operations \in BOOLEAN
    /\ allow_schema_changes = FALSE
    /\ llm_provider \in Providers
    /\ llm = [agent \in {} |-> ""]
    /\ llm_calls = <<>>
    /\ NoCostCall
    /\ ValidatorIdle
    /\ CleanerIdle
    /\ OptimizerIdle
    /\ ManagerInit
    /\ store_rows = [cs \in {} |-> <<>>]
    /\ NoCall
    /\ NoConcurrentCalls
    /\ WorkflowIdle

servedVars == <<pc, request, state, response, llm, llm_calls>>

unservedVars ==
    <<settingsVars, llm_provider, costVars, validatorVars, cleanerVars, optimizerVars,
      concurrentVars, managerVars, callVars, llm_output, visited, failed>>

\* DatabaseQueryWorkflow.__init__
CreateAgents ==
    /\ DOMAIN llm = {}
    /\ llm' = AgentClients(llm_provider)
    /\ UNCHANGED <<pc, request, state, response, llm_calls, unservedVars>>

\* process_query up to the first node of the graph
ServeRequest ==
    /\ DOMAIN llm # {}
    /\ pc = "idle"
    /\ \E name \in ConnectionNames :
            request' = [query |-> << "Show me all users" >>, connection_name |-> name,
                        context |-> [k \in {} |-> <<>>]]
    /\ state' = DatabaseQueryState
    /\ pc' = Edge("START")
    /\ UNCHANGED <<response, llm, llm_calls, unservedVars>>

\* one node of the graph runs and calls the client of its agent
ServeNode ==
    /\ pc \in Nodes
    /\ \E outcome \in Outcomes(pc) :
         \E new_state \in { ApplyNode(state, request, outcome) } :
             /\ state' = new_state
             /\ pc' = Successor(pc, new_state, outcome.node_failed)
             /\ \E made \in CallsMade(pc, outcome) :
                    llm_calls' = llm_calls
                        \o [i \in 1..Len(made) |-> [agent |-> made[i], client |-> llm[made[i]]]]
    /\ UNCHANGED <<request, response, llm, unservedVars>>

\* graph.ainvoke returned
ServeResponse ==
    /\ pc = "end"
    /\ response' = << BuildResponse(state) >>
    /\ pc' = "done"
    /\ UNCHANGED <<request, state, llm, llm_calls, unservedVars>>

NextProviders ==
    \/ CreateAgents
    \/ ServeRequest
    \/ ServeNode
    \/ ServeResponse

SpecProviders == InitProviders /\ [][NextProviders]_vars

\* C22 as stated: every call made on a chat client while a request is served
\* goes to the provider selected by settings.llm_provider, for each of
\* openai, ollama and anthropic and for each agent that calls.
C22_CallsGoToConfiguredProvider ==
    \A i \in 1..Len(llm_calls) : ProviderOf(llm_calls[i].client) = llm_provider

====
